---------------------------- MODULE Spec2Model ----------------------------
(***************************************************************************)
(* PatchBootSystemState (VMEncryption, rhel_72_lvm): the encryption state  *)
(* that pivots into the encrypted old root, patches its boot               *)
(* configuration and pivots back.                                          *)
(*                                                                         *)
(* The program counter pc holds the SOURCE LINE of PatchBootSystemState.py *)
(* that is executed next (0: no call in progress), so every action can be  *)
(* read beside the line it models.  Every command handed to the executor   *)
(* is appended to log with the line of its call site.                      *)
(***************************************************************************)
EXTENDS Naturals, Sequences, FiniteSets

VARIABLES
    pc,             \* source line executed next; 0 when no call is running
    frames,         \* call stack: <<[fn, from, ret, mountpoint, idx]>>, top last
    procs_to_kill,  \* unmount(): the victims not yet visited (l.196-199)
    exc,            \* enter(): the exception caught at l.91, re-raised l.97
    op,             \* the top-level call in progress or last finished, with
                    \* the machine as the call found it (before)
    outcome,        \* "none" | "running" | "returned" | "raised" | "killed"
    error,          \* the exception a raised call ended with
    log,            \* what the current top-level call did to the outside
    sys,            \* the machine: mount table, root, files, collaborators
    env,            \* fixed for a behaviour: root_partuuid, base precondition
    budget          \* what is left of the bounds of the behaviour

vars == <<pc, frames, procs_to_kill, exc, op, outcome, error, log, sys,
          env, budget>>

-----------------------------------------------------------------------------
(* Bounds of the model *)

\* The environment deviates from the quiet course (every command whose
\* failure the code tolerates succeeds, fuser finds no process, no service
\* remounts /var) at most this often in one behaviour: a process ID that
\* fuser reports, a tolerated failure, a remount each count one.  A command
\* run with raise_exception_on_failure may fail at any time.
MaxDeviations == 1
\* the same, where the Mount Reclaimer is called on its own
MaxReclaimDeviations == 2
\* mount points mounted when a behaviour starts
MaxMounted == 1
\* runs of enter() that pass its guard, or calls of the reclaimer
MaxRuns == 1
\* calls of the Boot Config Patcher on its own in one behaviour
MaxPatchRuns == 3

-----------------------------------------------------------------------------
(* Strings of characters: process IDs as fuser prints them *)

Digits == <<"0", "1", "2", "3", "4", "5", "6", "7", "8", "9">>

\* str.isdigit() for one character
IsDigitChar(c) == \E k \in 1..Len(Digits) : Digits[k] = c

\* the value of a digit character (also its rank in code-point order)
DigitValue(c) == (CHOOSE k \in 1..Len(Digits) : Digits[k] = c) - 1

\* str.isdigit(): non-empty and every character a digit
isdigit(p) == Len(p) > 0 /\ \A k \in 1..Len(p) : IsDigitChar(p[k])

\* int(victim) of a string of digits
RECURSIVE int(_)
int(p) == IF Len(p) = 0 THEN 0
          ELSE 10 * int(SubSeq(p, 1, Len(p) - 1)) + DigitValue(p[Len(p)])

\* the text of a string of characters
RECURSIVE Text(_)
Text(p) == IF Len(p) = 0 THEN "" ELSE p[1] \o Text(Tail(p))

\* Python's str < str on strings of digits: lexicographic by character
RECURSIVE StrLess(_, _)
StrLess(a, b) ==
    IF Len(b) = 0 THEN FALSE
    ELSE IF Len(a) = 0 THEN TRUE
    ELSE IF a[1] # b[1] THEN DigitValue(a[1]) < DigitValue(b[1])
    ELSE StrLess(Tail(a), Tail(b))

\* insert x into an ascending list, after the elements not greater than it
RECURSIVE InsertSorted(_, _)
InsertSorted(x, s) ==
    IF Len(s) = 0 THEN <<x>>
    ELSE IF StrLess(x, s[1]) THEN <<x>> \o s
    ELSE <<s[1]>> \o InsertSorted(x, Tail(s))

\* sorted(list of str), ascending
RECURSIVE sorted(_)
sorted(s) == IF Len(s) = 0 THEN <<>>
             ELSE InsertSorted(s[Len(s)], sorted(SubSeq(s, 1, Len(s) - 1)))

reversed(s) == [k \in 1..Len(s) |-> s[Len(s) + 1 - k]]

\* [p for p in stdout.split() if p.isdigit()]
RECURSIVE DigitTokens(_)
DigitTokens(s) ==
    IF Len(s) = 0 THEN <<>>
    ELSE IF isdigit(s[1]) THEN <<s[1]>> \o DigitTokens(Tail(s))
    ELSE DigitTokens(Tail(s))

\* l.196-197: the order in which unmount() visits the victims
KillOrder(stdout) == reversed(sorted(DigitTokens(stdout)))

-----------------------------------------------------------------------------
(* The machine the commands act on *)

\* l.155: the mount points unmount_lvm_volumes() walks, in this order
ReclaimList == <<"/var", "/opt", "/tmp", "/home", "/usr">>

\* l.72-77: the logical volumes mounted under the staging path, in order
StagingMounts ==
    << [ln |-> 72, lv |-> "rootlv", at |-> "/oldroot"],
       [ln |-> 73, lv |-> "varlv",  at |-> "/oldroot/var"],
       [ln |-> 74, lv |-> "usrlv",  at |-> "/oldroot/usr"],
       [ln |-> 75, lv |-> "tmplv",  at |-> "/oldroot/tmp"],
       [ln |-> 76, lv |-> "homelv", at |-> "/oldroot/home"],
       [ln |-> 77, lv |-> "optlv",  at |-> "/oldroot/opt"] >>

Range(s) == {s[k] : k \in 1..Len(s)}

\* every mount point the state names, as paths of the original root
MountPoints ==
    Range(ReclaimList) \cup {"/oldroot" \o m : m \in Range(ReclaimList)}
        \cup {"/oldroot", "/boot", "/boot/efi"}

\* the mount points mounted below p: the kernel refuses to unmount p while
\* one of them is mounted (EBUSY)
Below(p) ==
    IF p = "/oldroot" THEN {"/oldroot" \o m : m \in Range(ReclaimList)}
    ELSE IF p = "/boot" THEN {"/boot/efi"}
    ELSE {}

\* the part of a mount table a blanket 'umount -a' can take away: nothing,
\* everything, or one mount point none is mounted below
BlanketOutcomes(mounted) ==
    {{}, mounted} \cup {{p} : p \in {q \in mounted : Below(q) \cap mounted = {}}}

\* What a path names in the mount table, which is kept in the paths of the
\* original root: after the pivot into /oldroot, /var is the volume mounted
\* at /oldroot/var, and /boot is where the virtual filesystems were moved.
Canon(p, s) ==
    IF p \in {"/boot", "/boot/efi"}
    THEN IF s.vfs = s.root THEN p ELSE "nowhere"
    ELSE IF s.root = "memroot" THEN p
    ELSE IF p \in Range(ReclaimList) THEN "/oldroot" \o p
    ELSE "nowhere"

\* One command as the executor gets it: the call site, the command line,
\* raise_exception_on_failure, and what the command is to the machine.
Cmd(ln, text, fatal, kind, target) ==
    [ln |-> ln, via |-> "executor", cmd |-> text, fatal |-> fatal,
     kind |-> kind, target |-> target]

Plain(ln, text, fatal) == Cmd(ln, text, fatal, "plain", "")

\* The results the machine can give command c in state s: the exit status
\* (ok: zero) and the state it leaves.
Run(c, s) ==
    LET at      == Canon(c.target, s)
        Ok(t)   == [ok |-> TRUE, sys |-> t, cost |-> 0]
        \* a failure the code tolerates, where success was possible, is a
        \* deviation
        Fail    == [ok |-> FALSE, sys |-> s, cost |-> 0]
        Either(can, t) ==
            IF can THEN {Ok(t), [Fail EXCEPT !.cost = IF c.fatal THEN 0 ELSE 1]}
            ELSE {Fail}
    IN
    CASE c.kind = "mountpoint" ->
            IF at \in s.mounted THEN {Ok(s)} ELSE {Fail}
      [] c.kind = "mount" ->
            Either(at # "nowhere", [s EXCEPT !.mounted = @ \cup {at}])
      [] c.kind = "umount" ->
            Either(at \in s.mounted /\ Below(at) \cap s.mounted = {},
                   [s EXCEPT !.mounted = @ \ {at}])
      [] c.kind = "umount_all" ->
            {[ok |-> (gone = s.mounted),
              sys |-> [s EXCEPT !.mounted = @ \ gone],
              cost |-> IF gone \in {{}, s.mounted} THEN 0 ELSE 1]
                : gone \in BlanketOutcomes(s.mounted)}
      [] c.kind = "mkdir_staging" ->
            Either(~s.staging, [s EXCEPT !.staging = TRUE])
      [] c.kind = "rmdir_staging" ->
            Either(s.staging /\ s.root = "memroot",
                   [s EXCEPT !.staging = FALSE])
      [] c.kind = "pivot_in" ->
            Either(s.root = "memroot" /\ "/oldroot" \in s.mounted /\ s.staging,
                   [s EXCEPT !.root = "oldroot"])
      [] c.kind = "pivot_back" ->
            Either(s.root = "oldroot", [s EXCEPT !.root = "memroot"])
      [] c.kind = "move_in" ->
            Either(s.root = "oldroot" /\ s.vfs = "memroot",
                   [s EXCEPT !.vfs = "oldroot"])
      [] c.kind = "move_back" ->
            Either(s.root = "memroot" /\ s.vfs = "oldroot",
                   [s EXCEPT !.vfs = "memroot"])
      [] c.kind = "luksClose" ->
            Either(s.device, [s EXCEPT !.device = FALSE])
      [] c.kind = "luksOpen" ->
            Either(~s.device, [s EXCEPT !.device = TRUE])
      [] c.kind = "touch_marker" ->
            Either(TRUE, [s EXCEPT !.marker = TRUE])
      [] c.kind = "sed_rule" ->
            Either(TRUE, [s EXCEPT !.udevRulePatched = TRUE])
      [] c.kind = "dracut" ->
            Either(TRUE, [s EXCEPT !.initramfs =
                              [dracutConf |-> s.dracutConf,
                               adeConf |-> s.adeConf]])
      [] OTHER -> {Ok(s), Fail}

\* the results of c that the bounds of the behaviour still allow
Results(c) == {r \in Run(c, sys) : r.cost <= budget.deviations}

Spend(n) == budget' = [budget EXCEPT !.deviations = @ - n]

\* Whether the exit status of c shows anywhere: the code acts on it, or the
\* machine is changed by it.  Of the other commands the log keeps no status.
Observed(c) == c.fatal \/ c.kind # "plain"

\* words: the words fuser printed, or the victim given to kill
EntryWith(c, ok, words) ==
    [ln |-> c.ln, via |-> c.via, cmd |-> c.cmd,
     rc |-> IF ~Observed(c) THEN "ignored"
            ELSE IF ok THEN "zero" ELSE "nonzero",
     words |-> words]

Entry(c, ok) == EntryWith(c, ok, <<>>)

\* something done without the executor: a collaborator, os.path, a file
Direct(ln, via, what, result) ==
    [ln |-> ln, via |-> via, cmd |-> what, rc |-> result, words |-> <<>>]

\* a call of a collaborator, with the arguments it was given
DirectWith(ln, via, what, args) ==
    [ln |-> ln, via |-> via, cmd |-> what, rc |-> "zero", words |-> args]

-----------------------------------------------------------------------------
(* Control: calls, returns and exceptions *)

\* from: the line of the call; ret: the line that follows it (0: none, the
\* call is the caller's last statement)
Frame(fn, from, ret, mountpoint) ==
    [fn |-> fn, from |-> from, ret |-> ret, mountpoint |-> mountpoint,
     idx |-> 0]

Top == frames[Len(frames)]

Front(s) == SubSeq(s, 1, Len(s) - 1)

\* An exception: what was raised at which line; after: how many entries the
\* log had then; trace: the lines of the calls that led there (the traceback)
NoError == [type |-> "none", ln |-> 0, cmd |-> "", after |-> 0, trace |-> <<>>]

Traceback == [k \in 1..Len(frames) |-> frames[k].from]

\* CommandExecutor.Execute with raise_exception_on_failure: the exception
\* names the command
CommandFailed(c) ==
    [type |-> "CommandFailed", ln |-> c.ln, cmd |-> c.cmd,
     after |-> Len(log) + 1, trace |-> Traceback]

\* l.293
ParseFailed ==
    [type |-> "Exception", ln |-> 293,
     cmd |-> "Could not parse ATTR{partition} from udevadm info",
     after |-> Len(log), trace |-> Traceback]

\* Where control goes when the running function returns: to the line after
\* the call, or out of the callers whose call was their last statement
\* (ret = 0).
RECURSIVE ReturnTo(_)
ReturnTo(fs) ==
    IF Len(fs) = 0 THEN [pc |-> 0, frames |-> <<>>]
    ELSE IF fs[Len(fs)].ret # 0
         THEN [pc |-> fs[Len(fs)].ret, frames |-> Front(fs)]
         ELSE ReturnTo(Front(fs))

Return ==
    LET to == ReturnTo(frames) IN
    /\ pc' = to.pc
    /\ frames' = to.frames
    /\ outcome' = IF to.pc = 0 THEN "returned" ELSE outcome
    /\ UNCHANGED <<error, exc>>

\* nxt: the line to go on with, or 0 to return from the running function
Continue(nxt) ==
    IF nxt = 0 THEN Return
    ELSE pc' = nxt /\ UNCHANGED <<frames, outcome, error, exc>>

Call(fn, ret, mountpoint, entry) ==
    /\ frames' = Append(frames, Frame(fn, pc, ret, mountpoint))
    /\ pc' = entry
    /\ UNCHANGED <<outcome, error, exc>>

\* variant: the try block opened at the top of enter()
InTry_wholeEnter == frames[1].fn = "enter"

\* l.89-91: the try block of enter() holds the call of
\* _modify_pivoted_oldroot and nothing else
InTry ==
    /\ Len(frames) >= 2
    /\ frames[1].fn = "enter"
    /\ Top.fn = "_modify_pivoted_oldroot"

\* An exception leaves every function up to a handler: the except clause
\* of l.91, or the caller of the top-level call.
Raise(e) ==
    IF InTry
    THEN /\ pc' = 92
         /\ frames' = <<frames[1]>>
         /\ exc' = e
         /\ UNCHANGED <<outcome, error>>
    ELSE /\ pc' = 0
         /\ frames' = <<>>
         /\ outcome' = "raised"
         /\ error' = e
         /\ UNCHANGED exc

\* Execute(c): the command is issued and logged; a non-zero exit of a
\* command run with raise_exception_on_failure raises, anything else goes
\* on with line nxt.
Execute(c, nxt) ==
    \E r \in Results(c) :
        /\ log' = Append(log, Entry(c, r.ok))
        /\ sys' = r.sys
        /\ Spend(r.cost)
        /\ IF ~r.ok /\ c.fatal THEN Raise(CommandFailed(c)) ELSE Continue(nxt)
        /\ UNCHANGED <<procs_to_kill, op, env>>

\* Execute(c) where the caller looks at the exit status: line ifZero after
\* exit status 0, line ifNonZero after any other (0: return)
Probe(c, ifZero, ifNonZero) ==
    \E r \in Results(c) :
        /\ log' = Append(log, Entry(c, r.ok))
        /\ sys' = r.sys
        /\ Spend(r.cost)
        /\ Continue(IF r.ok THEN ifZero ELSE ifNonZero)
        /\ UNCHANGED <<procs_to_kill, op, env>>

\* the command of a straight-line block that pc stands at, then the next
\* command of the block, or line `after` behind its last one
ExecuteBlock(block, after) ==
    \E k \in 1..Len(block) :
        /\ block[k].ln = pc
        /\ Execute(block[k], IF k < Len(block) THEN block[k + 1].ln ELSE after)

-----------------------------------------------------------------------------
(* should_enter() and enter() *)

\* variant: the device node is looked at first
should_enter_deviceFirst(base, s) ==
    [seen  |-> <<Direct(49, "os.path", "exists /dev/mapper/osencrypt",
                        IF s.device THEN "True" ELSE "False"),
                 Direct(44, "super", "should_enter",
                        IF base THEN "True" ELSE "False")>>,
     value |-> s.device]

\* l.41-52: what should_enter() consults, in order, and what it returns,
\* for an answer `base` of OSEncryptionState.should_enter()
should_enter(base, s) ==
    IF ~base
    THEN [seen  |-> <<Direct(44, "super", "should_enter", "False")>>,
          value |-> FALSE]
    ELSE [seen  |-> <<Direct(44, "super", "should_enter", "True"),
                      Direct(49, "os.path", "exists /dev/mapper/osencrypt",
                             IF s.device THEN "True" ELSE "False")>>,
          value |-> s.device]

\* variant: enter() without its guard
EnterGuard_always(value) == TRUE

\* l.55-56: whether enter() goes on after its guard
EnterGuard(value) == value

\* variant: a failure to close the mapping is passed over
EnterPrepare_closeTolerated ==
    << Plain(60, "systemctl restart lvm2-lvmetad", FALSE),
       Plain(61, "pvscan", TRUE),
       Plain(62, "vgcfgrestore -f /volumes.lvm rootvg", TRUE),
       Cmd(63, "cryptsetup luksClose osencrypt", FALSE, "luksClose", "") >>

\* l.60-63
EnterPrepare ==
    << Plain(60, "systemctl restart lvm2-lvmetad", FALSE),
       Plain(61, "pvscan", TRUE),
       Plain(62, "vgcfgrestore -f /volumes.lvm rootvg", TRUE),
       Cmd(63, "cryptsetup luksClose osencrypt", TRUE, "luksClose", "") >>

\* l.306-310
LuksOpen ==
    << Cmd(307, "mount /boot", FALSE, "mount", "/boot"),
       Cmd(308, "cryptsetup luksOpen --header /boot/luks/osluksheader "
                \o "{rootfs_block_device} osencrypt -d {bek_path}",
           TRUE, "luksOpen", "") >>

\* variant: the marker directory is looked for, its absence passed over
MarkerCheck_tolerant == Plain(87, "[ -e \"/boot/luks\" ]", FALSE)

\* l.87: the boot-time marker directory must exist in the pivoted root
MarkerCheck == Plain(87, "[ -e \"/boot/luks\" ]", TRUE)

\* variant: the pivot is tried whether or not the staging directory was made
EnterStage_mkdirTolerated ==
    << Plain(71, "vgchange -a y rootvg", FALSE) >>
    \o [k \in 1..Len(StagingMounts) |->
          Cmd(StagingMounts[k].ln,
              "mount /dev/rootvg/" \o StagingMounts[k].lv \o " "
                  \o StagingMounts[k].at,
              TRUE, "mount", StagingMounts[k].at)]
    \o << Cmd(79, "mount /boot", FALSE, "mount", "/boot"),
          Cmd(81, "mount /boot/efi", FALSE, "mount", "/boot/efi"),
          Plain(82, "mount --make-rprivate /", TRUE),
          Cmd(83, "mkdir /oldroot/memroot", FALSE, "mkdir_staging", ""),
          Cmd(84, "pivot_root /oldroot /oldroot/memroot", TRUE, "pivot_in", ""),
          Cmd(86, "for i in dev proc sys boot; do mount --move /memroot/$i /$i; done",
              TRUE, "move_in", ""),
          MarkerCheck >>

\* l.71-87: the staging tree, the pivot into it, the checks behind it
EnterStage ==
    << Plain(71, "vgchange -a y rootvg", FALSE) >>
    \o [k \in 1..Len(StagingMounts) |->
          Cmd(StagingMounts[k].ln,
              "mount /dev/rootvg/" \o StagingMounts[k].lv \o " "
                  \o StagingMounts[k].at,
              TRUE, "mount", StagingMounts[k].at)]
    \o << Cmd(79, "mount /boot", FALSE, "mount", "/boot"),
          Cmd(81, "mount /boot/efi", FALSE, "mount", "/boot/efi"),
          Plain(82, "mount --make-rprivate /", TRUE),
          Cmd(83, "mkdir /oldroot/memroot", TRUE, "mkdir_staging", ""),
          Cmd(84, "pivot_root /oldroot /oldroot/memroot", TRUE, "pivot_in", ""),
          Cmd(86, "for i in dev proc sys boot; do mount --move /memroot/$i /$i; done",
              TRUE, "move_in", ""),
          MarkerCheck >>

\* l.92-95 and l.99-102: the way back to the original root, from line `first`
PivotBack(first) ==
    << Plain(first, "mount --make-rprivate /", FALSE),
       Cmd(first + 1, "pivot_root /memroot /memroot/oldroot", FALSE,
           "pivot_back", ""),
       Cmd(first + 2, "rmdir /oldroot/memroot", FALSE, "rmdir_staging", ""),
       Cmd(first + 3,
           "for i in dev proc sys boot; do mount --move /oldroot/$i /$i; done",
           FALSE, "move_back", "") >>

\* variant: the except clause also restarts the agent
Rollback_thenRestartAgent ==
    PivotBack(92) \o << Plain(96, "systemctl restart waagent", FALSE) >>

\* l.92-95: the except clause
Rollback == PivotBack(92)

\* l.136: the completion marker of the state
TouchMarker ==
    Cmd(136, "touch /oldroot/var/lib/azure_disk_encryption_config/os_encryption_markers/PatchBootSystemState",
        TRUE, "touch_marker", "")

\* variant: the agent is restarted before the unmounts
CommitTail_restartFirst ==
    << TouchMarker,
       Plain(140, "systemctl restart waagent", FALSE),
       Cmd(138, "umount /boot", FALSE, "umount", "/boot"),
       Cmd(139, "umount /oldroot", FALSE, "umount", "/oldroot") >>

\* l.136-140
CommitTail ==
    << TouchMarker,
       Cmd(138, "umount /boot", FALSE, "umount", "/boot"),
       Cmd(139, "umount /oldroot", FALSE, "umount", "/oldroot"),
       Plain(140, "systemctl restart waagent", FALSE) >>

\* l.111-140: what the else clause does once it is back on the original root
Commit ==
    << Plain(111, "/bin/cp -ax /var/log/azure/{extension_full_name} "
                  \o "/oldroot/var/log/azure/{extension_full_name}.Stripdown",
             FALSE),
       Plain(114, "/bin/cp -ax /var/lib/waagent/{extension_versioned_name}/config/*.settings.rejected "
                  \o "/oldroot/var/lib/waagent/{extension_versioned_name}/config",
             FALSE),
       Plain(117, "/bin/cp -ax /var/lib/waagent/{extension_versioned_name}/status/*.status.rejected "
                  \o "/oldroot/var/lib/waagent/{extension_versioned_name}/status",
             FALSE),
       Plain(120, "/bin/cp -ax /var/log/azure/{test_extension_full_name} "
                  \o "/oldroot/var/log/azure/{test_extension_full_name}.Stripdown",
             FALSE),
       Plain(123, "/bin/cp -ax /var/lib/waagent/{test_extension_versioned_name}/config/*.settings.rejected "
                  \o "/oldroot/var/lib/waagent/{test_extension_versioned_name}/config",
             FALSE),
       Plain(126, "/bin/cp -ax /var/lib/waagent/{test_extension_versioned_name}/status/*.status.rejected "
                  \o "/oldroot/var/lib/waagent/{test_extension_versioned_name}/status",
             FALSE),
       Plain(130, "/bin/cp -ax /var/log/waagent.log /oldroot/var/log/waagent.log.pivotroot",
             FALSE),
       Plain(132, "/bin/cp -ax /var/lib/azure_disk_encryption_config/os_encryption_markers/* "
                  \o "/oldroot/var/lib/azure_disk_encryption_config/os_encryption_markers/",
             TRUE) >>
    \o CommitTail

\* l.55-56: enter() asks should_enter() and returns at once on False
EnterCheck ==
    /\ pc = 55
    /\ \E base \in BOOLEAN :
         LET r == should_enter(base, sys) IN
         /\ log' = log \o r.seen
         /\ IF EnterGuard(r.value)
            THEN /\ budget.runs > 0
                 /\ budget' = [budget EXCEPT !.runs = @ - 1]
                 /\ Continue(60)
            ELSE /\ Continue(0)
                 /\ UNCHANGED budget
    /\ UNCHANGED <<procs_to_kill, op, sys, env>>

\* l.60-63
EnterPrepareStep == ExecuteBlock(EnterPrepare, 65)

\* l.65, l.312-318: the BEK collaborator gives the passphrase file
EnterFindBek ==
    /\ pc = 65
    /\ log' = Append(log, Direct(317, "bek_util", "get_bek_passphrase_file",
                                 "zero"))
    /\ Continue(307)
    /\ UNCHANGED <<procs_to_kill, op, sys, env, budget>>

\* l.306-310
EnterLuksOpenStep == ExecuteBlock(LuksOpen, 67)

\* l.67: the first reclaim
EnterReclaim ==
    /\ pc = 67
    /\ Call("unmount_lvm_volumes", 71, "", 152)
    /\ UNCHANGED <<procs_to_kill, op, log, sys, env, budget>>

\* l.71-87
EnterStageStep == ExecuteBlock(EnterStage, 90)

\* l.89-90: the try block calls the Boot Config Patcher
EnterTryPatch ==
    /\ pc = 90
    /\ Call("_modify_pivoted_oldroot", 99, "", 240)
    /\ UNCHANGED <<procs_to_kill, op, log, sys, env, budget>>

\* l.92-95
EnterRollbackStep == ExecuteBlock(Rollback, 97)

\* l.97: raise, the exception caught at l.91
EnterReraise ==
    /\ pc = 97
    /\ pc' = 0
    /\ frames' = <<>>
    /\ outcome' = "raised"
    /\ error' = exc
    /\ UNCHANGED <<procs_to_kill, exc, op, log, sys, env, budget>>

\* l.99-102
EnterPivotBackStep == ExecuteBlock(PivotBack(99), 111)

\* l.111-140
EnterCommitStep == ExecuteBlock(Commit, 144)

\* l.144: the second reclaim, the last statement of enter()
EnterReclaimAgain ==
    /\ pc = 144
    /\ Call("unmount_lvm_volumes", 0, "", 152)
    /\ UNCHANGED <<procs_to_kill, op, log, sys, env, budget>>

-----------------------------------------------------------------------------
(* The Mount Reclaimer: unmount_lvm_volumes(), unmount_var(), unmount() *)

\* os.getpid(), as fuser prints it
OwnPid == <<"4", "2", "0">>

\* what one word of fuser's output can be
PidTokens ==
    { <<"1">>, <<"5", "0">>, <<"3", "0", "0", "0">>, OwnPid,
      <<"k", "e", "r", "n", "e", "l">> }

\* the outputs of one fuser query that reports at most n words, no word twice
FuserOutputs(n) ==
    UNION { {s \in [1..k -> PidTokens] :
                \A i, j \in 1..k : i # j => s[i] # s[j]} : k \in 0..n }

Mountpoint(ln, m) == Cmd(ln, "mountpoint " \o m, FALSE, "mountpoint", m)

\* l.152-153
UlvHead ==
    << Plain(152, "swapoff -a", TRUE),
       Cmd(153, "umount -a", FALSE, "umount_all", "") >>

\* l.167-173: the services that hold /var
StopServices ==
    << Plain(167, "systemctl stop NetworkManager", FALSE),
       Plain(168, "systemctl stop rsyslog", FALSE),
       Plain(169, "systemctl stop systemd-udevd", FALSE),
       Plain(170, "systemctl stop systemd-journald", FALSE),
       Plain(171, "systemctl stop systemd-hostnamed", FALSE),
       Plain(172, "systemctl stop atd", FALSE),
       Plain(173, "systemctl stop postfix", FALSE) >>

\* variant: the jobs are scheduled without a look at the result
SelfDeferred_atTolerated ==
    << Plain(213, "at -f /delete-lock.sh now + 1 minutes", FALSE),
       Plain(214, "at -f /restart-wala.sh now + 2 minutes", FALSE),
       Plain(215, "pkill -f .*ForLinux.*handle.py.*daemon.*", TRUE) >>

\* l.213-215: what follows the lock script on the own-pid path
SelfDeferred ==
    << Plain(213, "at -f /delete-lock.sh now + 1 minutes", TRUE),
       Plain(214, "at -f /restart-wala.sh now + 2 minutes", TRUE),
       Plain(215, "pkill -f .*ForLinux.*handle.py.*daemon.*", TRUE) >>

\* variant: the own pid is not recognised
IsSelf_never(victim) == FALSE

\* l.200: int(victim) == os.getpid()
IsSelf(victim) == int(victim) = int(OwnPid)

\* variant: init is not recognised
IsInit_never(victim) == FALSE

\* l.217: int(victim) == 1
IsInit(victim) == int(victim) = 1

\* l.152-153
UlvHeadStep == ExecuteBlock(UlvHead, 155)

\* l.155: the for statement takes the next mount point, or ends
UlvNext ==
    /\ pc = 155
    /\ frames' = [frames EXCEPT ![Len(frames)].idx = @ + 1]
    /\ pc' = IF Top.idx < Len(ReclaimList) THEN 156 ELSE 161
    /\ UNCHANGED <<procs_to_kill, exc, op, outcome, error, log, sys,
                   env, budget>>

\* l.156
UlvProbeOldroot ==
    /\ pc = 156
    /\ Probe(Mountpoint(156, "/oldroot" \o ReclaimList[Top.idx]), 157, 158)

\* variant: a mount point reclaimed under /oldroot is not looked at under
\* the current root (elif)
UlvUnmountOldroot_elif ==
    /\ pc = 157
    /\ Call("unmount", 155, "/oldroot" \o ReclaimList[Top.idx], 182)
    /\ UNCHANGED <<procs_to_kill, op, log, sys, env, budget>>

\* l.157
UlvUnmountOldroot ==
    /\ pc = 157
    /\ Call("unmount", 158, "/oldroot" \o ReclaimList[Top.idx], 182)
    /\ UNCHANGED <<procs_to_kill, op, log, sys, env, budget>>

\* l.158
UlvProbe ==
    /\ pc = 158
    /\ Probe(Mountpoint(158, ReclaimList[Top.idx]), 159, 155)

\* l.159
UlvUnmount ==
    /\ pc = 159
    /\ Call("unmount", 155, ReclaimList[Top.idx], 182)
    /\ UNCHANGED <<procs_to_kill, op, log, sys, env, budget>>

\* l.161: the last statement of unmount_lvm_volumes()
UlvUnmountVar ==
    /\ pc = 161
    /\ Call("unmount_var", 0, "", 167)
    /\ UNCHANGED <<procs_to_kill, op, log, sys, env, budget>>

\* l.166-173: one pass of the loop of unmount_var() stops the services
VarStopServices ==
    /\ pc = 167
    /\ log' = log \o [k \in 1..Len(StopServices) |->
                         Entry(StopServices[k], TRUE)]
    /\ Continue(174)
    /\ UNCHANGED <<procs_to_kill, op, sys, env, budget>>

\* l.174
VarUnmount ==
    /\ pc = 174
    /\ Call("unmount", 176, "/var", 182)
    /\ UNCHANGED <<procs_to_kill, op, log, sys, env, budget>>

\* variant: one pass, whatever the probe says
VarRecheck_once ==
    /\ pc = 176
    /\ Probe(Mountpoint(178, "/var"), 0, 0)

\* l.176-179: sleep(3), then /var is looked at again: a non-zero exit ends
\* the loop, exit status 0 starts the next pass
VarRecheck ==
    /\ pc = 176
    /\ Probe(Mountpoint(178, "/var"), 167, 0)

\* variant: unmount() goes straight to its probe
UnmountVarFirst_never ==
    /\ pc = 182
    /\ Continue(185)
    /\ UNCHANGED <<procs_to_kill, op, log, sys, env, budget>>

\* l.182-183: every mount point but /var has /var reclaimed first
UnmountVarFirst ==
    /\ pc = 182
    /\ IF Top.mountpoint # "/var"
       THEN Call("unmount_var", 185, "", 167)
       ELSE Continue(185)
    /\ UNCHANGED <<procs_to_kill, op, log, sys, env, budget>>

\* variant: no early return
UnmountProbe_noEarlyReturn ==
    /\ pc = 185
    /\ Probe(Mountpoint(185, Top.mountpoint), 190, 190)

\* l.185-186: nothing to do for a mount point that is not mounted
UnmountProbe ==
    /\ pc = 185
    /\ Probe(Mountpoint(185, Top.mountpoint), 190, 0)

\* variant: a fuser that fails is taken to have found no process
UnmountFuser_tolerated ==
    /\ pc = 190
    /\ LET c == Plain(190, "fuser -vm " \o Top.mountpoint, TRUE) IN
       \/ /\ log' = Append(log, Entry(c, FALSE))
          /\ procs_to_kill' = <<>>
          /\ Continue(223)
          /\ UNCHANGED budget
       \/ \E stdout \in FuserOutputs(budget.deviations) :
            /\ log' = Append(log, EntryWith(c, TRUE, stdout))
            /\ procs_to_kill' = KillOrder(stdout)
            /\ Spend(Len(stdout))
            /\ Continue(199)
    /\ UNCHANGED <<op, sys, env>>

\* l.190-197: fuser names the processes; they are put in killing order
UnmountFuser ==
    /\ pc = 190
    /\ LET c == Plain(190, "fuser -vm " \o Top.mountpoint, TRUE) IN
       \/ /\ log' = Append(log, Entry(c, FALSE))
          /\ Raise(CommandFailed(c))
          /\ UNCHANGED <<procs_to_kill, budget>>
       \/ \E stdout \in FuserOutputs(budget.deviations) :
            /\ log' = Append(log, EntryWith(c, TRUE, stdout))
            /\ procs_to_kill' = KillOrder(stdout)
            /\ Spend(Len(stdout))
            /\ Continue(199)
    /\ UNCHANGED <<op, sys, env>>

\* l.199-200: the next victim, if any; the own pid takes the branch of l.201
UnmountNextVictim ==
    /\ pc = 199
    /\ Continue(IF procs_to_kill = <<>> THEN 223
                ELSE IF IsSelf(Head(procs_to_kill)) THEN 207
                ELSE 217)
    /\ UNCHANGED <<procs_to_kill, op, log, sys, env, budget>>

\* l.207
UnmountSelfRestartAtd ==
    /\ pc = 207
    /\ Execute(Plain(207, "systemctl restart atd", FALSE), 209)

\* l.209-211: the lock script is written
UnmountSelfWriteScript ==
    /\ pc = 209
    /\ log' = Append(log, Direct(210, "file", "write /delete-lock.sh", "zero"))
    /\ sys' = [sys EXCEPT !.deleteLockScript = TRUE]
    /\ Continue(213)
    /\ UNCHANGED <<procs_to_kill, op, env, budget>>

\* l.213-215
UnmountSelfDeferredStep ==
    ExecuteBlock(SelfDeferred, 217)

\* l.217-219: init is skipped
UnmountSkipInit ==
    /\ pc = 217
    /\ IF IsInit(Head(procs_to_kill))
       THEN /\ procs_to_kill' = Tail(procs_to_kill)
            /\ Continue(199)
       ELSE /\ Continue(221)
            /\ UNCHANGED procs_to_kill
    /\ UNCHANGED <<op, log, sys, env, budget>>

\* l.221: kill -9; the process that kills itself runs no further
UnmountKill ==
    /\ pc = 221
    /\ LET victim == Head(procs_to_kill)
           c == Cmd(221, "kill -9 " \o Text(victim), FALSE,
                    IF IsSelf(victim) THEN "kill_self" ELSE "plain",
                    Text(victim))
       IN  \/ /\ log' = Append(log, EntryWith(c, TRUE, <<victim>>))
              /\ IF IsSelf(victim)
                 THEN /\ pc' = 0
                      /\ frames' = <<>>
                      /\ outcome' = "killed"
                      /\ UNCHANGED <<procs_to_kill, error, exc>>
                 ELSE /\ procs_to_kill' = Tail(procs_to_kill)
                      /\ Continue(199)
           \/ /\ IsSelf(victim)
              /\ log' = Append(log, EntryWith(c, FALSE, <<victim>>))
              /\ procs_to_kill' = Tail(procs_to_kill)
              /\ Continue(199)
    /\ UNCHANGED <<op, sys, env, budget>>

\* l.223
UnmountTelinit ==
    /\ pc = 223
    /\ Execute(Plain(223, "telinit u", TRUE), 225)

\* variant: a failure of the umount is passed over
UnmountUmount_tolerated ==
    /\ pc = 225
    /\ Execute(Cmd(227, "umount " \o Top.mountpoint, FALSE, "umount",
                   Top.mountpoint), 0)

\* l.225-227: sleep(3), then the one umount
UnmountUmount ==
    /\ pc = 225
    /\ Execute(Cmd(227, "umount " \o Top.mountpoint, TRUE, "umount",
                   Top.mountpoint), 0)

\* While the program sleeps (l.176, l.225) a service that restarted itself
\* brings /var back.
ServiceRemountsVar ==
    /\ pc \in {176, 225}
    /\ budget.deviations > 0
    /\ Canon("/var", sys) \notin sys.mounted
    /\ sys' = [sys EXCEPT !.mounted = @ \cup {Canon("/var", sys)}]
    /\ Spend(1)
    /\ UNCHANGED <<pc, frames, procs_to_kill, exc, op, outcome, error, log,
                   env>>

-----------------------------------------------------------------------------
(* The Boot Config Patcher: _modify_pivoted_oldroot() *)

\* l.253-258, l.273-274, l.298-301: the chunks appended to dracut's files
AdeDrivers  == "\nadd_drivers+=\" dm_crypt \"\n"
AdeFstab    ==
    "\nadd_fstab+=\" /lib/dracut/modules.d/91adeOnline/ade_fstab_line \"\n"
AdeModules  == "\nadd_dracutmodules+=\" crypt lvm\"\n"
LegacyDrivers == "\nadd_drivers+=\" fuse vfat nls_cp437 nls_iso8859-1\"\n"
LegacyModules == "\nadd_dracutmodules+=\" crypt\"\n"

\* variant: the file is opened for writing, not for appending
append_contents_to_file_truncating(contents, file) == <<contents>>

\* l.229-236: io.open(path, 'a') and write; a file is the list of the
\* chunks written to it
append_contents_to_file(contents, file) == Append(file, contents)

\* variant: the debug flag is left out
AdditionalParams_noDebug(root_partuuid, boot_uuid) ==
    << "rd.luks.ade.partuuid=" \o root_partuuid,
       "rd.luks.ade.bootuuid=" \o boot_uuid >>

\* l.261-263
AdditionalParams(root_partuuid, boot_uuid) ==
    << "rd.luks.ade.partuuid=" \o root_partuuid,
       "rd.luks.ade.bootuuid=" \o boot_uuid,
       "rd.debug" >>

\* CommonVariables.osmapper_name: the mapper name of the root volume
osmapper_name == "osencrypt"

\* l.266-270; os.path.join(a, b) is a \o b for a that ends in '/' and b, a
\* partition UUID, that does not begin with '/'
RootCryptItem(root_partuuid) ==
    [dev_path |-> "/dev/disk/by-partuuid/" \o root_partuuid,
     mapper_name |-> osmapper_name,
     luks_header_path |-> "/boot/luks/osluksheader"]

\* variant: the parameters are appended unseen
add_kernelopts_blind(opts, params) == opts \o params

\* OSEncryptionState._add_kernelopts: append-only, no parameter twice
RECURSIVE add_kernelopts(_, _)
add_kernelopts(opts, params) ==
    IF Len(params) = 0 THEN opts
    ELSE add_kernelopts(IF params[1] \in Range(opts) THEN opts
                        ELSE Append(opts, params[1]),
                        Tail(params))

\* CryptMountConfigUtil.add_crypt_item: the item joins the persisted set
add_crypt_item(items, item) == Append(items, item)

\* l.276, l.303 (the command substitution of the source is written $(...))
Dracut(ln) ==
    Cmd(ln, "/usr/sbin/dracut -f -v --kver $(grubby --default-kernel | sed 's|/boot/vmlinuz-||g')",
        TRUE, "dracut", "")

\* l.286-289
LegacyHead ==
    << Plain(286, "cp -r {scriptdir}/../../91ade /lib/dracut/modules.d/", TRUE) >>

\* one line of udevadm's attribute walk: key=="value"
Attr(key, value) == [key |-> key, value |-> value]

\* what 'udevadm info --attribute-walk' can print for the root device: no
\* line, lines without the partition attribute, lines with it
UdevadmOutputs ==
    { <<>>,
      << Attr("KERNEL", "sda2"), Attr("ATTR{size}", "62912479") >>,
      << Attr("KERNEL", "sda2"), Attr("ATTR{partition}", "2"),
         Attr("ATTR{size}", "62912479") >> }

\* l.291: re.findall(r'ATTR{partition}=="(.*)"', proc_comm.stdout): the
\* values of the lines with that key, in order
RECURSIVE findall(_)
findall(stdout) ==
    IF Len(stdout) = 0 THEN <<>>
    ELSE IF stdout[1].key = "ATTR{partition}"
         THEN <<stdout[1].value>> \o findall(Tail(stdout))
         ELSE findall(Tail(stdout))

\* variant: the UUID-based strategy whatever the identifier
UsesPartuuid_always(root_partuuid) == TRUE

\* l.240: the strategy is chosen by the root partition identifier
UsesPartuuid(root_partuuid) == root_partuuid # ""

\* l.238-244
PatchSelect ==
    /\ pc = 240
    /\ IF UsesPartuuid(env.root_partuuid)
       THEN /\ log' = Append(log, Direct(243, "super", "_get_boot_uuid", "zero"))
            /\ Continue(250)
       ELSE /\ Continue(286)
            /\ UNCHANGED log
    /\ UNCHANGED <<procs_to_kill, op, sys, env, budget>>

\* l.247-250
PatchCopyModule ==
    /\ pc = 250
    /\ Execute(Plain(250, "cp -r {scriptdir}/../../91adeOnline /lib/dracut/modules.d/",
                     TRUE), 253)

\* variant: the crypt item is not registered before dracut has run
PatchConfigure_registerLater ==
    /\ pc = 253
    /\ log' = log \o
         << Direct(253, "file", "append /etc/dracut.conf.d/ade.conf", "zero"),
            Direct(257, "file", "append /etc/dracut.conf.d/ade.conf", "zero"),
            DirectWith(264, "super", "_add_kernelopts",
                       AdditionalParams(env.root_partuuid, env.boot_uuid)),
            Direct(273, "file", "append /etc/dracut.conf.d/ade.conf", "zero") >>
    /\ sys' = [sys EXCEPT
                 !.adeConf = append_contents_to_file(AdeModules,
                               append_contents_to_file(AdeFstab,
                                 append_contents_to_file(AdeDrivers, @))),
                 !.kernelOpts = add_kernelopts(@,
                                  AdditionalParams(env.root_partuuid,
                                                   env.boot_uuid))]
    /\ Continue(276)
    /\ UNCHANGED <<procs_to_kill, op, env, budget>>

\* l.252-274: dracut's configuration, the kernel command line, the crypt item
PatchConfigure ==
    /\ pc = 253
    /\ log' = log \o
         << Direct(253, "file", "append /etc/dracut.conf.d/ade.conf", "zero"),
            Direct(257, "file", "append /etc/dracut.conf.d/ade.conf", "zero"),
            DirectWith(264, "super", "_add_kernelopts",
                       AdditionalParams(env.root_partuuid, env.boot_uuid)),
            DirectWith(271, "crypt_mount_config_util", "add_crypt_item",
                       <<RootCryptItem(env.root_partuuid)>>),
            Direct(273, "file", "append /etc/dracut.conf.d/ade.conf", "zero") >>
    /\ sys' = [sys EXCEPT
                 !.adeConf = append_contents_to_file(AdeModules,
                               append_contents_to_file(AdeFstab,
                                 append_contents_to_file(AdeDrivers, @))),
                 !.kernelOpts = add_kernelopts(@,
                                  AdditionalParams(env.root_partuuid,
                                                   env.boot_uuid)),
                 !.cryptItems = add_crypt_item(@,
                                  RootCryptItem(env.root_partuuid))]
    /\ Continue(276)
    /\ UNCHANGED <<procs_to_kill, op, env, budget>>

\* l.276
PatchDracut ==
    /\ pc = 276
    /\ Execute(Dracut(276), 0)

\* l.286
PatchLegacyHeadStep == ExecuteBlock(LegacyHead, 289)

\* l.288-289: udevadm's output is kept by the communicator
PatchLegacyUdevadm ==
    /\ pc = 289
    /\ LET c == Plain(289, "udevadm info --attribute-walk "
                           \o "--name={rootfs_block_device}", TRUE) IN
       \/ /\ log' = Append(log, Entry(c, FALSE))
          /\ Raise(CommandFailed(c))
       \/ \E stdout \in UdevadmOutputs :
            /\ log' = Append(log, EntryWith(c, TRUE, stdout))
            /\ Continue(291)
    /\ UNCHANGED <<procs_to_kill, op, sys, env, budget>>

\* variant: a missing attribute is passed over
PatchLegacyParse_lenient ==
    /\ pc = 291
    /\ Continue(296)
    /\ UNCHANGED <<procs_to_kill, op, log, sys, env, budget>>

\* l.291-294: the partition number is read from udevadm's output (the last
\* thing logged), or the attribute is not in it
PatchLegacyParse ==
    /\ pc = 291
    /\ IF findall(log[Len(log)].words) = <<>>
       THEN Raise(ParseFailed)
       ELSE Continue(296)
    /\ UNCHANGED <<procs_to_kill, op, log, sys, env, budget>>

\* l.295-296
PatchLegacySed ==
    /\ pc = 296
    /\ LET matches == findall(log[Len(log)].words) IN
       Execute(Cmd(296, "sed -i.bak s/ENCRYPTED_DISK_PARTITION/"
                        \o (IF matches = <<>> THEN "" ELSE matches[1]) \o "/ "
                        \o "\"/lib/dracut/modules.d/91ade/50-udev-ade.rules\"",
                   TRUE, "sed_rule", ""), 298)

\* l.298-301
PatchLegacyConfigure ==
    /\ pc = 298
    /\ log' = log \o
         << Direct(298, "file", "append /etc/dracut.conf", "zero"),
            Direct(300, "file", "append /etc/dracut.conf", "zero") >>
    /\ sys' = [sys EXCEPT
                 !.dracutConf = append_contents_to_file(LegacyModules,
                                  append_contents_to_file(LegacyDrivers, @))]
    /\ Continue(303)
    /\ UNCHANGED <<procs_to_kill, op, env, budget>>

\* l.303
PatchLegacyDracut ==
    /\ pc = 303
    /\ Execute(Dracut(303), 304)

\* variant: the legacy strategy hands over the parameters of the other one
PatchLegacyKernelOpts_withUuids ==
    /\ pc = 304
    /\ log' = Append(log, DirectWith(304, "super", "_add_kernelopts",
                                     AdditionalParams(env.root_partuuid,
                                                      env.boot_uuid)))
    /\ sys' = [sys EXCEPT !.kernelOpts =
                  add_kernelopts(@, AdditionalParams(env.root_partuuid,
                                                     env.boot_uuid))]
    /\ Continue(0)
    /\ UNCHANGED <<procs_to_kill, op, env, budget>>

\* l.304
PatchLegacyKernelOpts ==
    /\ pc = 304
    /\ log' = Append(log, DirectWith(304, "super", "_add_kernelopts",
                                     <<"rd.debug">>))
    /\ sys' = [sys EXCEPT !.kernelOpts = add_kernelopts(@, <<"rd.debug">>)]
    /\ Continue(0)
    /\ UNCHANGED <<procs_to_kill, op, env, budget>>

-----------------------------------------------------------------------------
(* Top-level calls and the specifications *)

Subsets(S, n) == {T \in SUBSET S : Cardinality(T) <= n}

InitSys(mounted, device) ==
    [mounted |-> mounted, root |-> "memroot", vfs |-> "memroot",
     staging |-> FALSE, device |-> device, marker |-> FALSE,
     udevRulePatched |-> FALSE, initramfs |-> <<>>,
     dracutConf |-> <<"# dracut.conf\n">>, adeConf |-> <<>>,
     kernelOpts |-> <<"ro", "crashkernel=auto">>, cryptItems |-> <<>>,
     deleteLockScript |-> FALSE]

InitCommon ==
    /\ pc = 0
    /\ frames = <<>>
    /\ procs_to_kill = <<>>
    /\ exc = NoError
    /\ op = [name |-> "none", arg |-> "", result |-> FALSE, before |-> sys]
    /\ outcome = "none"
    /\ error = NoError
    /\ log = <<>>
    /\ env \in [root_partuuid : {"", "abc-123"}, boot_uuid : {"def-456"}]

Init ==
    /\ \E mounted \in Subsets(MountPoints, MaxMounted), device \in BOOLEAN :
         sys = InitSys(mounted, device)
    /\ budget = [deviations |-> MaxDeviations, runs |-> MaxRuns]
    /\ InitCommon

\* a top-level call of method `name` begins at line `entry`
Begin(name, arg, entry) ==
    /\ pc = 0
    /\ outcome # "killed"
    /\ pc' = entry
    /\ frames' = <<Frame(name, 0, 0, arg)>>
    /\ op' = [name |-> name, arg |-> arg, result |-> FALSE, before |-> sys]
    /\ outcome' = "running"
    /\ error' = NoError
    /\ exc' = NoError
    /\ log' = <<>>
    /\ procs_to_kill' = <<>>
    /\ UNCHANGED <<sys, env>>

CallEnter == Begin("enter", "", 55) /\ UNCHANGED budget

\* should_enter(), called by the driving loop of the state machine
CallShouldEnter ==
    /\ pc = 0
    /\ outcome # "killed"
    /\ \E base \in BOOLEAN :
         LET r == should_enter(base, sys) IN
         /\ log' = r.seen
         /\ op' = [name |-> "should_enter", arg |-> "", result |-> r.value,
                   before |-> sys]
    /\ outcome' = "returned"
    /\ error' = NoError
    /\ UNCHANGED <<pc, frames, procs_to_kill, exc, sys, env, budget>>

BeginReclaim(name, arg, entry) ==
    /\ budget.runs > 0
    /\ budget' = [budget EXCEPT !.runs = @ - 1]
    /\ Begin(name, arg, entry)

CallUnmount ==
    \E m \in MountPoints \ {"/oldroot", "/boot", "/boot/efi"} :
        BeginReclaim("unmount", m, 182)

CallUnmountVar == BeginReclaim("unmount_var", "", 167)

CallUnmountLvmVolumes == BeginReclaim("unmount_lvm_volumes", "", 152)

Reclaimer ==
    \/ UlvHeadStep \/ UlvNext \/ UlvProbeOldroot \/ UlvUnmountOldroot
    \/ UlvProbe \/ UlvUnmount \/ UlvUnmountVar
    \/ VarStopServices \/ VarUnmount \/ VarRecheck
    \/ UnmountVarFirst \/ UnmountProbe \/ UnmountFuser \/ UnmountNextVictim
    \/ UnmountSelfRestartAtd \/ UnmountSelfWriteScript
    \/ UnmountSelfDeferredStep \/ UnmountSkipInit \/ UnmountKill
    \/ UnmountTelinit \/ UnmountUmount
    \/ ServiceRemountsVar

Patcher ==
    \/ PatchSelect \/ PatchCopyModule \/ PatchConfigure \/ PatchDracut
    \/ PatchLegacyHeadStep \/ PatchLegacyUdevadm \/ PatchLegacyParse
    \/ PatchLegacySed
    \/ PatchLegacyConfigure \/ PatchLegacyDracut \/ PatchLegacyKernelOpts

Enter ==
    \/ EnterCheck \/ EnterPrepareStep \/ EnterFindBek \/ EnterLuksOpenStep
    \/ EnterReclaim \/ EnterStageStep \/ EnterTryPatch \/ EnterRollbackStep
    \/ EnterReraise \/ EnterPivotBackStep \/ EnterCommitStep
    \/ EnterReclaimAgain

\* the state as the state machine drives it
Next == CallEnter \/ CallShouldEnter \/ Enter \/ Patcher \/ Reclaimer

Spec == Init /\ [][Next]_vars

\* the Mount Reclaimer called on its own
NextReclaim ==
    CallUnmount \/ CallUnmountVar \/ CallUnmountLvmVolumes \/ Reclaimer

InitReclaim ==
    /\ \E mounted \in Subsets(MountPoints, MaxMounted) :
         sys = InitSys(mounted, TRUE)
    /\ budget = [deviations |-> MaxReclaimDeviations, runs |-> MaxRuns]
    /\ InitCommon

SpecReclaim == InitReclaim /\ [][NextReclaim]_vars

\* the identifiers a state can be constructed with (l.38, l.243)
PartUuids == {"", "abc-123", "0f1e-77"}
BootUuids == {"def-456", "c0de-9"}

\* _modify_pivoted_oldroot() called on its own, again and again, against the
\* same filesystem
CallPatcher ==
    /\ budget.runs > 0
    /\ budget' = [budget EXCEPT !.runs = @ - 1]
    /\ Begin("_modify_pivoted_oldroot", "", 240)

NextPatcher == CallPatcher \/ Patcher

InitPatcher ==
    /\ sys = InitSys({}, TRUE)
    /\ budget = [deviations |-> 0, runs |-> MaxPatchRuns]
    /\ pc = 0
    /\ frames = <<>>
    /\ procs_to_kill = <<>>
    /\ exc = NoError
    /\ op = [name |-> "none", arg |-> "", result |-> FALSE, before |-> sys]
    /\ outcome = "none"
    /\ error = NoError
    /\ log = <<>>
    /\ env \in [root_partuuid : PartUuids, boot_uuid : BootUuids]

SpecPatcher == InitPatcher /\ [][NextPatcher]_vars

\* a step of the program itself: every statement moves on to another line
\* (the environment's ServiceRemountsVar does not)
ReclaimerStep == Reclaimer /\ pc' # pc

\* the reclaimer is single-threaded and every command blocks until it has
\* ended: a call that can take its next step does take it
SpecReclaimFair == SpecReclaim /\ WF_vars(ReclaimerStep)


-----------------------------------------------------------------------------
(* Properties of enter() and should_enter(), under Spec *)

Entries == 1..Len(log)

Executed(k) == log[k].via = "executor"

\* the command was handed to the executor in this call
Issued(text) == \E k \in Entries : Executed(k) /\ log[k].cmd = text

PivotIn == "pivot_root /oldroot /oldroot/memroot"

\* the four commands of the way back, in the order of l.92-95
RollbackSequence ==
    << "mount --make-rprivate /",
       "pivot_root /memroot /memroot/oldroot",
       "rmdir /oldroot/memroot",
       "for i in dev proc sys boot; do mount --move /oldroot/$i /$i; done" >>

\* the Boot Config Patcher raised in this call of enter()
PatcherRaised == op.name = "enter" /\ exc.type # "none"

\* what the log holds behind the patcher's failure
AfterFailure == SubSeq(log, exc.after + 1, Len(log))

\* C1: once _modify_pivoted_oldroot has raised inside enter(), the commands
\* executed after the failure are the four rollback commands in the order
\* of the source and nothing else, and enter() then raises the error the
\* patcher raised; every exception that leaves the patcher is handled so.
C1_RollbackThenReraise ==
    /\ PatcherRaised =>
         /\ Len(exc.trace) = 2 /\ exc.trace[2] = 90
         /\ Len(AfterFailure) <= Len(RollbackSequence)
         /\ \A k \in 1..Len(AfterFailure) :
              /\ AfterFailure[k].via = "executor"
              /\ AfterFailure[k].cmd = RollbackSequence[k]
         /\ outcome \in {"running", "raised"}
         /\ outcome = "running" =>
              pc = (IF Len(AfterFailure) < 4 THEN 92 + Len(AfterFailure)
                    ELSE 97)
         /\ outcome = "raised" =>
              /\ error = exc
              /\ Len(AfterFailure) = Len(RollbackSequence)
    /\ (/\ op.name = "enter"
        /\ outcome = "raised"
        /\ Len(error.trace) >= 2
        /\ error.trace[2] = 90) => exc = error

\* dracut failed in the patcher, the rollback ran, enter() has raised
C1_Reached ==
    /\ PatcherRaised
    /\ outcome = "raised"
    /\ error.type = "CommandFailed"
    /\ error.ln = 276
    /\ Len(AfterFailure) = 4

\* enter() has ended after the pivot into /oldroot succeeded
EndedAfterPivotIn ==
    /\ op.name = "enter"
    /\ outcome \in {"returned", "raised"}
    /\ \E k \in Entries :
         Executed(k) /\ log[k].cmd = PivotIn /\ log[k].rc = "zero"

\* C2: whenever enter() ends, by returning or raising, after the pivot into
\* /oldroot succeeded, the pivot back has been issued and the process is on
\* the original root.
C2_EndsOnOriginalRoot ==
    EndedAfterPivotIn =>
        /\ Issued(RollbackSequence[2])
        /\ sys.root = "memroot"

\* the call sites of enter() and the reclaimer that run a command with
\* raise_exception_on_failure
FatalSites ==
    {61, 62, 63, 308, 72, 73, 74, 75, 76, 77, 82, 83,
     152, 190, 213, 214, 215, 223, 227}

\* entry k is a fatal command that failed before any pivot into /oldroot
FailedBeforePivot(k) ==
    /\ Executed(k)
    /\ log[k].ln \in FatalSites
    /\ log[k].rc = "nonzero"
    /\ \A j \in 1..k : log[j].cmd # PivotIn

\* C3: a command run as fatal that fails before the pivot into /oldroot
\* makes enter() raise at once, with the failing command as the last one
\* of the run: the pivot into /oldroot is not issued, nor pivot back, rmdir
\* of the staging directory or the move back of the virtual filesystems,
\* and 'mount --make-rprivate /' is issued at l.82 only.
C3_PrePivotFailureRaisesAtOnce ==
    op.name = "enter" =>
        \A k \in Entries :
            FailedBeforePivot(k) =>
                /\ k = Len(log)
                /\ outcome = "raised"
                /\ error.type = "CommandFailed"
                /\ error.ln = log[k].ln
                /\ error.cmd = log[k].cmd
                /\ exc = NoError
                /\ ~Issued(PivotIn)
                /\ \A i \in 2..4 : ~Issued(RollbackSequence[i])
                /\ \A j \in Entries :
                     log[j].cmd = RollbackSequence[1] => log[j].ln = 82

\* mkdir of the staging directory failed, behind the private remount of l.82
C3_Reached ==
    /\ op.name = "enter"
    /\ outcome = "raised"
    /\ error.ln = 83
    /\ FailedBeforePivot(Len(log))
    /\ Issued(RollbackSequence[1])

\* this call of enter() went past its guard
PassedGuard == op.name = "enter" /\ \E k \in Entries : log[k].ln = 60

MarkerWritten ==
    \E k \in Entries : Executed(k) /\ log[k].ln = 136 /\ log[k].rc = "zero"

RestartIssued == Issued("systemctl restart waagent")

\* C4: a run of enter() that went past the guard and has ended by returning
\* or raising either returned with the marker written and the agent restart
\* issued, or raised with neither.
C4_CommittedOrUntouched ==
    (PassedGuard /\ outcome \in {"returned", "raised"}) =>
        \/ outcome = "returned" /\ MarkerWritten /\ RestartIssued
        \/ outcome = "raised" /\ ~MarkerWritten /\ ~RestartIssued

\* should_enter() answered False in this call of enter(): the base
\* precondition was False, or the device node was found missing
GuardFalse ==
    /\ op.name = "enter"
    /\ Len(log) >= 1
    /\ log[1].ln = 44
    /\ \/ log[1].rc = "False"
       \/ Len(log) >= 2 /\ log[2].ln = 49 /\ log[2].rc = "False"

\* C5: enter() called while should_enter() is false returns having consulted
\* the base precondition and at most the device node, and nothing else: no
\* command, no BEK lookup, and the machine (files, crypt items, kernel
\* options, mounts) is as it was before the call.
C5_DeclinedEnterIsNoOp ==
    GuardFalse =>
        /\ outcome = "returned"
        /\ Len(log) = (IF log[1].rc = "False" THEN 1 ELSE 2)
        /\ \A k \in Entries : log[k].via \in {"super", "os.path"}
        /\ sys = op.before

\* the device node was looked at and found missing, on a machine with a
\* volume mounted
C5_Reached == GuardFalse /\ Len(log) = 2 /\ sys.mounted # {}

\* C6: should_enter() returns True exactly when the base precondition holds
\* and /dev/mapper/osencrypt exists, and does not look at the device node
\* when the base precondition is False.
C6_ShouldEnterIffBaseAndDevice ==
    op.name = "should_enter" =>
        /\ Len(log) >= 1
        /\ log[1].via = "super"
        /\ op.result = (log[1].rc = "True" /\ sys.device)
        /\ log[1].rc = "False" =>
             \A k \in Entries : log[k].via # "os.path"
        /\ log[1].rc = "True" =>
             /\ Len(log) = 2
             /\ log[2].via = "os.path"
             /\ log[2].rc = (IF sys.device THEN "True" ELSE "False")

\* the base precondition was False while the device node exists
C6_Reached ==
    /\ op.name = "should_enter"
    /\ log[1].rc = "False"
    /\ sys.device
    /\ ~op.result

\* should_enter() returned True
C6_ReachedTrue == op.name = "should_enter" /\ op.result


-----------------------------------------------------------------------------
(* Properties of the Mount Reclaimer, under SpecReclaim *)

\* unmount(m) was called for a mount point that was not mounted
CalledUnmounted ==
    /\ op.name = "unmount"
    /\ Canon(op.arg, op.before) \notin op.before.mounted

\* C7, as stated: unmount(m) for a mount point m that is not mounted issues
\* no kill command and no umount command, whatever the state of /var.
C7_NoKillNoUmount ==
    CalledUnmounted =>
        \A k \in Entries : log[k].ln \notin {221, 227}

\* C7, amended: unmount(m) for a mount point m that is not mounted issues no
\* fuser, kill or umount for m and ends with the probe of m.  For m = /var
\* the probe is its only command.  For any other m the reclaim of /var runs
\* first (l.183), and every fuser, kill, telinit and umount of the call
\* belongs to it: it names /var and follows a probe that found /var mounted.
C7_UnmountedTargetUntouched ==
    CalledUnmounted =>
        /\ \A k \in Entries :
             log[k].cmd \notin {"fuser -vm " \o op.arg, "umount " \o op.arg}
        /\ op.arg = "/var" => Len(log) <= 1
        /\ \A k \in Entries :
             log[k].ln \in {190, 221, 223, 227} =>
                /\ op.arg # "/var"
                /\ log[k].ln = 190 => log[k].cmd = "fuser -vm /var"
                /\ log[k].ln = 227 => log[k].cmd = "umount /var"
                /\ \E j \in 1..k :
                     /\ log[j].cmd = "mountpoint /var"
                     /\ log[j].rc = "zero"
        /\ outcome = "returned" =>
             /\ log[Len(log)].ln = 185
             /\ log[Len(log)].cmd = "mountpoint " \o op.arg
             /\ log[Len(log)].rc = "nonzero"

\* unmount of an unmounted mount point returned after the reclaim of /var
\* killed a process and unmounted /var
C7_Reached ==
    /\ CalledUnmounted
    /\ op.arg # "/var"
    /\ outcome = "returned"
    /\ \E k \in Entries : log[k].ln = 221
    /\ \E k \in Entries : log[k].cmd = "umount /var" /\ log[k].rc = "zero"

\* C8: no 'kill -9 1' is ever issued, whatever fuser reports: the victim of
\* every kill is a process other than init.
C8_InitNeverKilled ==
    \A k \in Entries :
        /\ log[k].cmd # "kill -9 1"
        /\ log[k].ln = 221 => int(log[k].words[1]) # 1

\* fuser reported init together with the own pid, and the loop over the
\* victims is done
C8_Reached ==
    \E k \in Entries :
        /\ log[k].ln = 190
        /\ <<"1">> \in Range(log[k].words)
        /\ OwnPid \in Range(log[k].words)
        /\ \E j \in k..Len(log) : log[j].ln = 223

KillOwnPid == "kill -9 " \o Text(OwnPid)

C10_KillsDescendNumerically ==
    \A j, k \in Entries :
        (/\ j < k
         /\ log[j].ln = 221
         /\ log[k].ln = 221
         /\ \A i \in j..k : log[i].ln # 190) =>
            int(log[j].words[1]) > int(log[k].words[1])

\* the seven stop commands of unmount_var() all precede entry k
StopsBefore(k) ==
    \A i \in 1..Len(StopServices) :
        \E j \in 1..(k - 1) : log[j].cmd = StopServices[i].cmd

\* entry k is a fuser or umount of /var, or a kill of a process that the
\* last fuser before it reported for /var
TargetsVar(k) ==
    \/ log[k].cmd \in {"fuser -vm /var", "umount /var"}
    \/ /\ log[k].ln = 221
       /\ \E j \in 1..k :
            /\ log[j].cmd = "fuser -vm /var"
            /\ \A i \in (j + 1)..k : log[i].ln # 190

\* C11: in unmount_lvm_volumes() and unmount(), every fuser, kill and
\* umount that targets /var comes after the stop commands of all seven
\* services in the same top-level call.
C11_ServicesStoppedFirst ==
    op.name \in {"unmount_lvm_volumes", "unmount"} =>
        \A k \in Entries : TargetsVar(k) => StopsBefore(k)

\* the mount points other than /var that unmount() is called for
OtherTargets == (MountPoints \ {"/oldroot", "/boot", "/boot/efi"}) \ {"/var"}

\* entry k is the fuser of unmount(m)
FuserOf(k, m) == log[k].ln = 190 /\ log[k].cmd = "fuser -vm " \o m

\* entry k is a kill or the umount of the unmount(m) whose fuser is entry j
BehindFuser(j, k) ==
    /\ j < k
    /\ log[k].ln \in {221, 223, 227}
    /\ \A i \in (j + 1)..k : log[i].ln \notin {185, 190}

\* C12: when unmount(m), m other than /var, issues its fuser, unmount_var()
\* has just completed in that call: the fuser follows the probe of m
\* (l.185), and that probe follows the probe of /var (l.178) that reported
\* /var not mounted, with the stop commands before it.  Every kill and every
\* 'umount m' of the call comes behind that fuser.
C12_VarReclaimedFirst ==
    /\ \A m \in OtherTargets, k \in Entries :
         FuserOf(k, m) =>
            /\ k >= 3
            /\ log[k - 1].ln = 185
            /\ log[k - 1].cmd = "mountpoint " \o m
            /\ log[k - 1].rc = "zero"
            /\ log[k - 2].ln = 178
            /\ log[k - 2].cmd = "mountpoint /var"
            /\ log[k - 2].rc = "nonzero"
            /\ StopsBefore(k - 2)
    /\ \A m \in OtherTargets, k \in Entries :
         log[k].cmd = "umount " \o m =>
            \E j \in 1..k : FuserOf(j, m) /\ BehindFuser(j, k)
    /\ \A k \in Entries :
         log[k].ln = 221 =>
            \E j \in 1..k : log[j].ln = 190 /\ BehindFuser(j, k)

\* unmount('/opt') killed a process and unmounted /opt after /var had come
\* back once and was reclaimed
C12_Reached ==
    /\ op.name = "unmount"
    /\ op.arg = "/opt"
    /\ outcome = "returned"
    /\ \E k \in Entries : log[k].cmd = "umount /opt" /\ log[k].rc = "zero"
    /\ \E k \in Entries : log[k].cmd = "umount /var"

-----------------------------------------------------------------------------
(* Properties of enter(): the order of the unmounts, under Spec *)

\* this run of enter() mounted the volume at the call site of line ln
MountedByRun(ln) ==
    \E k \in Entries : Executed(k) /\ log[k].ln = ln /\ log[k].rc = "zero"

\* the command of line ln has just been issued
JustIssued(ln) == Len(log) >= 1 /\ log[Len(log)].ln = ln

\* C13: enter() issues 'umount /oldroot' (l.139) only when none of the
\* volumes this run mounted below /oldroot is mounted any more, and
\* 'umount /boot' (l.138) only when /boot/efi, if this run mounted it, is
\* not mounted any more.
C13_ChildrenBeforeParents ==
    op.name = "enter" =>
        /\ JustIssued(139) =>
             \A k \in 2..Len(StagingMounts) :
                MountedByRun(StagingMounts[k].ln) =>
                    StagingMounts[k].at \notin sys.mounted
        /\ JustIssued(138) =>
             (MountedByRun(81) => "/boot/efi" \notin sys.mounted)

-----------------------------------------------------------------------------
(* Properties of the Mount Reclaimer: busy mount points and the loop of
   unmount_var(), under SpecReclaim *)

\* entry k is an umount of l.227 that failed
UmountFailed(k) == log[k].ln = 227 /\ log[k].rc = "nonzero"

\* C14: in unmount_var() a failed 'umount /var' does not end the call, the
\* loop goes on with another pass; a failed umount of any other mount point
\* ends the call with the failure raised.
C14_BusyVarRetriedOthersFatal ==
    \A k \in Entries :
        UmountFailed(k) =>
            /\ (op.name = "unmount_var" /\ log[k].cmd = "umount /var") =>
                  outcome # "raised"
            /\ log[k].cmd # "umount /var" =>
                  outcome = "raised" /\ k = Len(log)

\* what the log of a call of unmount_var() looks like: every probe of l.178
\* that found /var mounted is followed by the next pass, a probe that found
\* it not mounted is the last thing the call did
VarLoopShape ==
    \A k \in Entries :
        log[k].ln = 178 =>
            /\ log[k].rc = "zero" =>
                 IF k < Len(log) THEN log[k + 1].ln = 167
                 ELSE outcome = "running" /\ pc = 167
            /\ log[k].rc = "nonzero" => k = Len(log) /\ outcome = "returned"

\* unmount_var() has returned behind a probe of l.178 that reported /var not
\* mounted, issued behind the stop commands and the unmount('/var') of the
\* same pass
VarReturnedBehindProbe ==
    (op.name = "unmount_var" /\ outcome = "returned") =>
        /\ Len(log) >= 9
        /\ log[Len(log)].ln = 178
        /\ log[Len(log)].cmd = "mountpoint /var"
        /\ log[Len(log)].rc = "nonzero"
        /\ \E i \in Entries :
             /\ log[i].ln = 167
             /\ log[i + 7].ln = 185
             /\ \A j \in (i + 1)..Len(log) : log[j].ln \notin {167, 176}
             /\ \A j \in i..(Len(log) - 1) : log[j].ln # 178

VarRunning == op.name = "unmount_var" /\ outcome = "running"

\* C15: unmount_var() returns only behind a probe of l.178, issued in the
\* same pass behind the unmount attempt, that reports /var not mounted; a
\* probe that finds /var mounted always starts another pass, with no cap on
\* the passes; and the call ends once no service brings /var back any more.
C15_VarLoopEndsOnlyUnmounted ==
    /\ [](op.name = "unmount_var" => VarLoopShape /\ VarReturnedBehindProbe)
    /\ (VarRunning ~> ~VarRunning)

\* unmount_var() has returned after a pass whose probe found /var mounted
\* again
C15_Reached ==
    /\ op.name = "unmount_var"
    /\ outcome = "returned"
    /\ \E k \in Entries : log[k].ln = 178 /\ log[k].rc = "zero"

-----------------------------------------------------------------------------
(* Properties of the Boot Config Patcher, under SpecPatcher *)

Patching == op.name = "_modify_pivoted_oldroot"

\* entry k was made by _modify_pivoted_oldroot_with_partuuid (with the
\* lookup of the boot UUID that precedes its call)
ByUuidStrategy(k) == log[k].ln >= 243 /\ log[k].ln <= 276

\* entry k was made by _modify_pivoted_oldroot_no_partuuid
ByLegacyStrategy(k) == log[k].ln >= 278 /\ log[k].ln <= 304

\* C16: a run of _modify_pivoted_oldroot() invokes exactly one strategy: the
\* UUID-based one when the root partition identifier is non-empty, the
\* legacy one when it is empty; everything the run does belongs to that
\* strategy, whose first command (the copy of the dracut module) is issued
\* in every run; and no step of the state changes the identifier.
C16_OneStrategyByIdentifier ==
    /\ [](Patching =>
            /\ \A k \in Entries :
                 IF env.root_partuuid # ""
                 THEN ByUuidStrategy(k) /\ ~ByLegacyStrategy(k)
                 ELSE ByLegacyStrategy(k) /\ ~ByUuidStrategy(k)
            /\ outcome \in {"returned", "raised"} =>
                 \E k \in Entries :
                    log[k].ln = (IF env.root_partuuid # "" THEN 250 ELSE 286))
    /\ [][env'.root_partuuid = env.root_partuuid]_vars

\* the legacy strategy has run to its end for the third time
C16_Reached ==
    /\ Patching
    /\ outcome = "returned"
    /\ env.root_partuuid = ""
    /\ budget.runs = 0
    /\ log[Len(log)].ln = 304

\* the UUID-based strategy has run to its end
C16_ReachedUuid ==
    /\ Patching
    /\ outcome = "returned"
    /\ env.root_partuuid # ""
    /\ log[Len(log)].ln = 276

\* udevadm has run in this call and its output holds no ATTR{partition}
NoPartitionMatch ==
    /\ Patching
    /\ \E k \in Entries :
         /\ log[k].ln = 289
         /\ log[k].rc = "zero"
         /\ findall(log[k].words) = <<>>

\* C17: in the legacy strategy, once udevadm's output holds no
\* ATTR{partition} the patcher raises the Exception of l.293 and does nothing
\* more: udevadm was run once and is the last command, no sed, no append to
\* /etc/dracut.conf, no dracut, no kernel parameter, and the udev rule, the
\* configuration, the initramfs and the kernel command line are as the call
\* found them.
C17_ParseFailureStopsLegacy ==
    NoPartitionMatch =>
        /\ log[Len(log)].ln = 289
        /\ \A k \in Entries : log[k].ln \in {286, 289}
        /\ \A j, k \in Entries : (log[j].ln = 289 /\ log[k].ln = 289) => j = k
        /\ \/ outcome = "running" /\ pc = 291
           \/ /\ outcome = "raised"
              /\ error.type = "Exception"
              /\ error.ln = 293
        /\ sys.udevRulePatched = op.before.udevRulePatched
        /\ sys.dracutConf = op.before.dracutConf
        /\ sys.initramfs = op.before.initramfs
        /\ sys.kernelOpts = op.before.kernelOpts

\* the parse failure, in a run that follows a complete one
C17_Reached ==
    /\ NoPartitionMatch
    /\ outcome = "raised"
    /\ error.ln = 293
    /\ "rd.debug" \in Range(op.before.kernelOpts)

\* the entries of the log that are calls of `what`
CallsOf(what) == {k \in Entries : log[k].cmd = what}

\* the UUID-based strategy has run to its end
UuidRunDone ==
    /\ Patching
    /\ outcome = "returned"
    /\ env.root_partuuid # ""

\* C18: a successful run of the UUID-based strategy, for root identifier r
\* and boot UUID b, calls the kernel-option interface once, with the three
\* parameters rd.luks.ade.partuuid=r, rd.luks.ade.bootuuid=b, rd.debug and
\* no other, and registers one CryptItem: /dev/disk/by-partuuid/r, the mapper
\* name of the root volume, /boot/luks/osluksheader.
C18_UuidRunParamsAndCryptItem ==
    UuidRunDone =>
        LET r == env.root_partuuid
            b == env.boot_uuid
            item == [dev_path |-> "/dev/disk/by-partuuid/" \o r,
                     mapper_name |-> osmapper_name,
                     luks_header_path |-> "/boot/luks/osluksheader"]
        IN  /\ Cardinality(CallsOf("_add_kernelopts")) = 1
            /\ \A k \in CallsOf("_add_kernelopts") :
                 log[k].words = << "rd.luks.ade.partuuid=" \o r,
                                   "rd.luks.ade.bootuuid=" \o b,
                                   "rd.debug" >>
            /\ Cardinality(CallsOf("add_crypt_item")) = 1
            /\ \A k \in CallsOf("add_crypt_item") : log[k].words = <<item>>
            /\ sys.cryptItems = Append(op.before.cryptItems, item)
            /\ \A q \in { "rd.luks.ade.partuuid=" \o r,
                          "rd.luks.ade.bootuuid=" \o b, "rd.debug" } :
                 q \in Range(sys.kernelOpts)

\* a successful run of the UUID-based strategy
C18_Reached == UuidRunDone /\ env.boot_uuid = "c0de-9" /\ budget.runs = 2

\* how often a file holds a chunk
Occurrences(file, chunk) == Cardinality({k \in 1..Len(file) : file[k] = chunk})

\* C19: whatever number of runs of the patcher the filesystem has seen,
\* /etc/dracut.conf.d/ade.conf and /etc/dracut.conf hold each directive the
\* patcher adds at most once, and exactly once when a run has added it.
C19_DirectivesAppendedOnce ==
    /\ \A chunk \in {AdeDrivers, AdeFstab, AdeModules} :
         /\ Occurrences(sys.adeConf, chunk) <= 1
         /\ (Patching /\ \E k \in Entries : log[k].ln = 273) =>
              Occurrences(sys.adeConf, chunk) = 1
    /\ \A chunk \in {LegacyDrivers, LegacyModules} :
         /\ Occurrences(sys.dracutConf, chunk) <= 1
         /\ (Patching /\ \E k \in Entries : log[k].ln = 300) =>
              Occurrences(sys.dracutConf, chunk) = 1

\* the parameters the two strategies hand to the kernel-option interface
AppendedParams ==
    { "rd.luks.ade.partuuid=" \o env.root_partuuid,
      "rd.luks.ade.bootuuid=" \o env.boot_uuid,
      "rd.debug" }

IsPrefix(old, new) ==
    /\ Len(old) <= Len(new)
    /\ SubSeq(new, 1, Len(old)) = old

\* C21: whatever /etc/dracut.conf and /etc/dracut.conf.d/ade.conf held when
\* a run of the patcher began, they hold it still, unchanged and at their
\* head, at every point of the run and however it ends; and no step of a
\* run takes anything away from either file.
C21_PriorContentKept ==
    /\ [](Patching =>
            /\ IsPrefix(op.before.dracutConf, sys.dracutConf)
            /\ IsPrefix(op.before.adeConf, sys.adeConf))
    /\ [][/\ IsPrefix(sys.dracutConf, sys'.dracutConf)
          /\ IsPrefix(sys.adeConf, sys'.adeConf)]_vars

\* a run that found directives of an earlier run in ade.conf added its own
\* and then failed in dracut
C21_Reached ==
    /\ Patching
    /\ outcome = "raised"
    /\ error.ln = 276
    /\ op.before.adeConf # <<>>
    /\ Len(sys.adeConf) > Len(op.before.adeConf)

\* the legacy strategy has added to a /etc/dracut.conf that held the
\* directives of an earlier run
C21_ReachedLegacy ==
    /\ Patching
    /\ outcome = "returned"
    /\ Len(op.before.dracutConf) > 1
    /\ Len(sys.dracutConf) > Len(op.before.dracutConf)

-----------------------------------------------------------------------------
(* Properties of enter() and the Mount Reclaimer: failures, under Spec *)

\* the call sites whose caller looks at the exit status (mountpoint)
ProbeSites == {156, 158, 178, 185}

\* the call sites of the 'systemctl stop' commands of unmount_var()
StopSites == {StopServices[i].ln : i \in 1..Len(StopServices)}

\* entry k is a command of enter() or the reclaimer, neither a probe nor a
\* service stop, that is known to have exited non-zero
FailedCommand(k) ==
    /\ Executed(k)
    /\ log[k].rc = "nonzero"
    /\ log[k].ln \notin ProbeSites \cup StopSites
    /\ ~ByUuidStrategy(k)
    /\ ~ByLegacyStrategy(k)

\* C22: in enter() and the Mount Reclaimer, a command that is neither a
\* mountpoint probe nor a 'systemctl stop' and exits non-zero is the last
\* command of the call, and the call has raised the failure of that command.
C22_NoFailureSwallowed ==
    op.name \in {"enter", "unmount_lvm_volumes", "unmount_var", "unmount"} =>
        \A k \in Entries :
            FailedCommand(k) =>
                /\ k = Len(log)
                /\ outcome = "raised"
                /\ error.ln = log[k].ln
                /\ error.cmd = log[k].cmd

-----------------------------------------------------------------------------
(* Properties of the registration of the root CryptItem, under Spec *)

\* the registered CryptItems that carry the mapper name of the root volume
RootItems ==
    {k \in 1..Len(sys.cryptItems) :
        sys.cryptItems[k].mapper_name = osmapper_name}

\* a run of enter(), or of the patcher alone, whose patch did not succeed
PatchFailed ==
    /\ op.name \in {"enter", "_modify_pivoted_oldroot"}
    /\ outcome = "raised"

\* C23: at most one registered CryptItem carries the mapper name of the root
\* volume, and a run whose patch has failed has registered none: the
\* registered items are those the run found.
C23_RootItemOnceOnSuccess ==
    /\ Cardinality(RootItems) <= 1
    /\ PatchFailed => sys.cryptItems = op.before.cryptItems

\* the first half of C23 alone
C23_RootItemUnique == Cardinality(RootItems) <= 1

-----------------------------------------------------------------------------
(* Properties of enter(): the steps before the patcher, under Spec *)

\* entry k was made by the Boot Config Patcher
ByPatcher(k) == ByUuidStrategy(k) \/ ByLegacyStrategy(k)

\* what the Boot Config Patcher writes: dracut's configuration, the udev
\* rule, the initramfs, the kernel command line, the CryptItems
Patched(s) ==
    <<s.dracutConf, s.adeConf, s.udevRulePatched, s.initramfs, s.kernelOpts,
      s.cryptItems>>

\* enter() is inside _modify_pivoted_oldroot
InPatcher == \E k \in 1..Len(frames) : frames[k].fn = "_modify_pivoted_oldroot"

\* C24: in enter() the Boot Config Patcher runs only behind a check of
\* /boot/luks (l.87) that exited zero, and a check that exits non-zero is
\* the last command of the run: enter() raises the failure of the check, the
\* patcher is not called, and dracut's configuration, the kernel command
\* line and the CryptItems are as the run found them.
C24_PatcherOnlyBehindMarkerCheck ==
    op.name = "enter" =>
        /\ (InPatcher \/ \E k \in Entries : ByPatcher(k)) =>
              \E j \in Entries :
                 /\ log[j].ln = 87
                 /\ log[j].rc = "zero"
                 /\ \A k \in Entries : ByPatcher(k) => j < k
        /\ \A k \in Entries :
              (log[k].ln = 87 /\ log[k].rc # "zero") =>
                 /\ k = Len(log)
                 /\ outcome = "raised"
                 /\ error.type = "CommandFailed"
                 /\ error.ln = 87
                 /\ exc = NoError
                 /\ \A j \in Entries : ~ByPatcher(j)
                 /\ Patched(sys) = Patched(op.before)

\* the check of /boot/luks failed in the pivoted root
C24_Reached ==
    /\ op.name = "enter"
    /\ outcome = "raised"
    /\ error.ln = 87
    /\ sys.root = "oldroot"
    /\ log[Len(log)].rc = "nonzero"

\* the entries of the log made at the call site of line ln
At(ln) == {k \in Entries : log[k].ln = ln}

\* the entries made at line ln by a command that exited zero
DoneAt(ln) == {k \in At(ln) : log[k].rc = "zero"}

\* C25: in a run of enter(), luksClose (l.63), the BEK lookup (l.317) and
\* luksOpen (l.308) each happen at most once and in this order: the lookup
\* only behind a luksClose that exited zero, luksOpen only behind the
\* lookup, and everything unmount_lvm_volumes() does only behind a luksOpen
\* that exited zero, in a run that consulted the BEK collaborator exactly
\* once.  A luksClose that fails is the last thing the run does: no lookup,
\* no luksOpen.
C25_CloseLookupOpenReclaim ==
    op.name = "enter" =>
        /\ \A ln \in {63, 317, 308} : Cardinality(At(ln)) <= 1
        /\ \A k \in At(317) :
              /\ log[k].via = "bek_util"
              /\ \E j \in DoneAt(63) : j < k
        /\ \A k \in At(308) :
              /\ \E j \in At(317) : j < k
              /\ \E j \in DoneAt(63) : j < k
        /\ \A k \in Entries :
              (log[k].ln >= 152 /\ log[k].ln <= 227) =>
                 \E j \in 1..(k - 1) : log[j].ln = 308 /\ log[j].rc = "zero"
        /\ At(152) # {} => Cardinality(At(317)) = 1
        /\ \A k \in At(63) :
              log[k].rc # "zero" =>
                 /\ k = Len(log)
                 /\ outcome = "raised"
                 /\ error.ln = 63
                 /\ At(317) = {}
                 /\ At(308) = {}

\* the first reclaim has begun behind close, lookup and open
C25_Reached ==
    /\ op.name = "enter"
    /\ At(152) # {}
    /\ DoneAt(308) # {}
    /\ At(317) # {}

\* luksClose has failed
C25_ReachedCloseFailed ==
    /\ op.name = "enter"
    /\ outcome = "raised"
    /\ error.ln = 63

\* l.72-77, l.82, l.83: what must have succeeded before the pivot, in order
BeforePivot ==
    [k \in 1..Len(StagingMounts) |->
        [ln  |-> StagingMounts[k].ln,
         cmd |-> "mount /dev/rootvg/" \o StagingMounts[k].lv \o " "
                    \o StagingMounts[k].at]]
    \o << [ln |-> 82, cmd |-> "mount --make-rprivate /"],
          [ln |-> 83, cmd |-> "mkdir /oldroot/memroot"] >>

\* C26: in a run of enter(), 'pivot_root /oldroot /oldroot/memroot' (l.84)
\* is issued only behind the six mounts of the logical volumes under
\* /oldroot (root, var, usr, tmp, home, opt), 'mount --make-rprivate /' and
\* 'mkdir /oldroot/memroot', each of which exited zero, in this order; a
\* failure of 'mount /boot' (l.79) or 'mount /boot/efi' (l.81) does not end
\* the run, which goes on with the next line.
C26_PivotOnlyIntoCompleteStaging ==
    op.name = "enter" =>
        /\ \A k \in At(84) :
              /\ log[k].cmd = PivotIn
              /\ \A i \in 1..Len(BeforePivot) :
                    \E j \in DoneAt(BeforePivot[i].ln) :
                       /\ j < k
                       /\ log[j].cmd = BeforePivot[i].cmd
                       /\ i > 1 =>
                            \E h \in DoneAt(BeforePivot[i - 1].ln) : h < j
        /\ \A k \in Entries : log[k].cmd = PivotIn => log[k].ln = 84
        /\ \A k \in At(79) \cup At(81) :
              (log[k].rc = "nonzero" /\ k = Len(log)) =>
                 /\ outcome = "running"
                 /\ pc = (IF log[k].ln = 79 THEN 81 ELSE 82)

\* the pivot succeeded in a run whose 'mount /boot/efi' had failed
C26_Reached ==
    /\ op.name = "enter"
    /\ DoneAt(84) # {}
    /\ \E k \in At(81) : log[k].rc = "nonzero"

-----------------------------------------------------------------------------
(* Properties of enter(): the else clause, under Spec *)

\* l.99-144: the call sites of the else clause in the order of the source,
\* up to the first command of the second reclaim
ElseLines ==
    <<99, 100, 101, 102, 111, 114, 117, 120, 123, 126, 130, 132, 136, 138,
      139, 140, 152>>

\* entry k is the i-th step of the else clause that begins at entry k - i + 1
InElse(k, i) ==
    /\ k >= i
    /\ \A h \in 1..i : log[k - i + h].ln = ElseLines[h]

\* C27: in a run of enter() whose patcher returned, the else clause issues
\* the four commands of the way back, the same and in the same order as the
\* rollback, then the copies, then the completion marker, 'umount /boot',
\* 'umount /oldroot', the agent restart, and last the second
\* unmount_lvm_volumes(): each of these commands is issued only as its step
\* of this sequence, directly behind the step before it, the sequence begins
\* directly behind the last step of a patcher that did not raise, and
\* nothing but the reclaim follows the agent restart.  A run whose patcher
\* raised writes no marker.
C27_PivotBackThenCommit ==
    op.name = "enter" =>
        /\ \A i \in 1..(Len(ElseLines) - 1) :
              \A k \in At(ElseLines[i]) : InElse(k, i)
        /\ \A k \in At(99) :
              /\ k > 1
              /\ log[k - 1].ln \in {276, 304}
              /\ exc = NoError
              /\ \A i \in 1..Len(RollbackSequence) :
                    k + i - 1 <= Len(log) =>
                       log[k + i - 1].cmd = RollbackSequence[i]
        /\ \A k \in At(140) :
              \A j \in (k + 1)..Len(log) :
                 /\ log[j].ln >= 152
                 /\ log[j].ln <= 227
                 /\ j = k + 1 => log[j].ln = 152
        /\ \A k \in At(136) : log[k - 1].rc = "zero"
        /\ (outcome = "returned" /\ PassedGuard) =>
              /\ DoneAt(136) # {}
              /\ At(140) # {}
              /\ log[Len(log)].ln = 178
        /\ PatcherRaised =>
              /\ At(136) = {}
              /\ sys.marker = op.before.marker

\* enter() has returned from the second reclaim
C27_Reached ==
    /\ op.name = "enter"
    /\ outcome = "returned"
    /\ DoneAt(136) # {}
    /\ \E k \in At(140) : k < Len(log)

-----------------------------------------------------------------------------
(* Properties of unmount_lvm_volumes(), under SpecReclaim *)

\* the probes of unmount_lvm_volumes() (l.156, l.158), in the order issued
UlvProbes == {k \in Entries : log[k].ln \in {156, 158}}

\* the probe of unmount_lvm_volumes() that follows entry k, or 0
NextUlvProbe(k) ==
    IF \E j \in UlvProbes : j > k
    THEN CHOOSE j \in UlvProbes : j > k /\ \A h \in UlvProbes : h > k => j <= h
    ELSE 0

\* the last probe of unmount_lvm_volumes() so far, or 0
LastUlvProbe ==
    IF UlvProbes = {} THEN 0
    ELSE CHOOSE j \in UlvProbes : \A h \in UlvProbes : h <= j

\* the calls of unmount() that unmount_lvm_volumes() has in progress
UlvCalls ==
    {i \in 1..Len(frames) :
        frames[i].fn = "unmount" /\ frames[i].from \in {157, 159}}

\* C28: unmount_lvm_volumes() begins with 'swapoff -a', whose failure ends
\* the call raised, then issues 'umount -a', whose failure does not, and
\* then probes, for /var, /opt, /tmp, /home, /usr in this order, first the
\* mount point under /oldroot (l.156) and then the mount point itself
\* (l.158), the second whatever the first probe said.  unmount(x) is called
\* only behind the probe of x itself, with exit status zero: behind any
\* other result the call goes on with the next probe.
C28_SwapoffBlanketThenIndependentProbes ==
    op.name = "unmount_lvm_volumes" =>
        /\ Len(log) >= 1 =>
              /\ log[1].ln = 152
              /\ log[1].cmd = "swapoff -a"
              /\ log[1].rc # "zero" =>
                    /\ Len(log) = 1
                    /\ outcome = "raised"
                    /\ error.ln = 152
        /\ Len(log) >= 2 =>
              /\ log[2].ln = 153
              /\ log[2].cmd = "umount -a"
              /\ Len(log) = 2 => (outcome = "running" /\ pc \in {155, 156})
        /\ \A k \in UlvProbes :
              /\ k > 2
              /\ \E i \in 1..Len(ReclaimList) :
                    /\ log[k].cmd = "mountpoint "
                          \o (IF log[k].ln = 156 THEN "/oldroot" ELSE "")
                          \o ReclaimList[i]
                    /\ (log[k].ln = 156 /\ NextUlvProbe(k) # 0) =>
                          log[NextUlvProbe(k)].cmd
                             = "mountpoint " \o ReclaimList[i]
                    /\ (log[k].ln = 158 /\ NextUlvProbe(k) # 0) =>
                          /\ i < Len(ReclaimList)
                          /\ log[NextUlvProbe(k)].cmd
                                = "mountpoint /oldroot" \o ReclaimList[i + 1]
        /\ LastUlvProbe = 0 => UlvCalls = {}
        /\ LastUlvProbe # 0 =>
              LET k == LastUlvProbe IN
              /\ \A i \in UlvCalls :
                    /\ log[k].rc = "zero"
                    /\ log[k].ln = frames[i].from - 1
                    /\ log[k].cmd = "mountpoint " \o frames[i].mountpoint
              /\ (log[k].rc # "zero" /\ outcome = "running") =>
                    /\ UlvCalls = {}
                    /\ k = Len(log) \/ log[k].cmd = "mountpoint /usr"
                    /\ k = Len(log) =>
                          pc \in (IF log[k].ln = 156 THEN {158}
                                  ELSE {155, 156, 161, 167})
        /\ outcome = "returned" =>
              /\ LastUlvProbe # 0
              /\ log[LastUlvProbe].cmd = "mountpoint /usr"

\* unmount_lvm_volumes() has returned after a probe under /oldroot found
\* nothing and the probe of the same mount point under the current root
\* found it mounted
C28_Reached ==
    /\ op.name = "unmount_lvm_volumes"
    /\ outcome = "returned"
    /\ \E k \in At(156) :
          /\ log[k].rc = "nonzero"
          /\ log[NextUlvProbe(k)].rc = "zero"

\* the probe under /oldroot found a mount, and so did the probe of the same
\* mount point under the current root
C28_ReachedBoth ==
    /\ op.name = "unmount_lvm_volumes"
    /\ \E k \in At(156) :
          /\ log[k].rc = "zero"
          /\ NextUlvProbe(k) # 0
          /\ log[NextUlvProbe(k)].rc = "zero"

-----------------------------------------------------------------------------
(* Properties of unmount(): the order inside one call, under SpecReclaim *)

\* l.199-221: the call sites of the loop over the victims
VictimSites == {207, 210, 213, 214, 215, 221}

\* entry j is the fuser of the call of unmount() that made entry k: nothing
\* but the loop over the victims, and telinit if `telinit` says so, lies
\* between them
SameCall(j, k, telinit) ==
    /\ j < k
    /\ log[j].ln = 190
    /\ \A i \in (j + 1)..(k - 1) :
          log[i].ln \in VictimSites \cup (IF telinit THEN {223} ELSE {})

\* C29: a call of unmount(m) that found m mounted issues, behind its fuser,
\* first everything it does for the victims, then 'telinit u', whose
\* failure ends the call raised, then waits (l.225), then 'umount m', once,
\* whose failure ends the call raised: every kill and the telinit follow
\* the fuser with only victims between, the umount follows the telinit
\* directly and names what the fuser named, and a call of unmount(m) from
\* outside issues 'umount m' at most once.
C29_KillsTelinitOneUmount ==
    /\ \A k \in At(221) \cup At(223) :
          \E j \in At(190) : SameCall(j, k, FALSE)
    /\ \A k \in At(223) :
          log[k].rc # "zero" =>
             /\ k = Len(log)
             /\ outcome = "raised"
             /\ error.ln = 223
    /\ \A k \in At(227) :
          /\ log[k - 1].ln = 223
          /\ log[k - 1].rc = "zero"
          /\ \E j \in At(190), m \in MountPoints :
                /\ SameCall(j, k, TRUE)
                /\ log[j].cmd = "fuser -vm " \o m
                /\ log[k].cmd = "umount " \o m
          /\ log[k].rc # "zero" =>
                /\ k = Len(log)
                /\ outcome = "raised"
                /\ error.ln = 227
                /\ error.cmd = log[k].cmd
    /\ pc = 225 => (log[Len(log)].ln = 223 /\ log[Len(log)].rc = "zero")
    /\ op.name = "unmount" =>
          Cardinality({k \in Entries : log[k].cmd = "umount " \o op.arg}) <= 1

\* unmount(m) killed a process, and its one umount failed
C29_Reached ==
    /\ op.name = "unmount"
    /\ outcome = "raised"
    /\ error.cmd = "umount " \o op.arg
    /\ log[Len(log) - 2].ln = 221

\* entry k is the last entry of a call that raised the failure of its command
RaisedAt(k) ==
    /\ k = Len(log)
    /\ outcome = "raised"
    /\ error.type = "CommandFailed"
    /\ error.ln = log[k].ln
    /\ error.cmd = log[k].cmd

\* C30: on the path of the own pid, 'systemctl restart atd' (l.207) comes
\* first, then the lock script is written, then the removal of the lock
\* file is scheduled for 1 minute (l.213) and the restart of the agent for
\* 2 minutes (l.214), each ending the call raised when it fails, and pkill
\* (l.215) is issued only directly behind both at commands with exit status
\* zero; none of these commands is issued anywhere else, and the path is
\* taken only for a fuser that reported the own pid.
C30_AtdThenJobsThenPkill ==
    /\ \A k \in At(213) :
          /\ log[k].cmd = "at -f /delete-lock.sh now + 1 minutes"
          /\ k > 2
          /\ log[k - 2].ln = 207
          /\ log[k - 2].cmd = "systemctl restart atd"
          /\ log[k - 1].cmd = "write /delete-lock.sh"
          /\ log[k].rc # "zero" => RaisedAt(k)
    /\ \A k \in At(214) :
          /\ log[k].cmd = "at -f /restart-wala.sh now + 2 minutes"
          /\ log[k - 1].ln = 213
          /\ log[k - 1].rc = "zero"
          /\ log[k].rc # "zero" => RaisedAt(k)
    /\ \A k \in At(215) :
          /\ log[k].cmd = "pkill -f .*ForLinux.*handle.py.*daemon.*"
          /\ log[k - 1].ln = 214
          /\ log[k - 1].rc = "zero"
          /\ log[k - 2].ln = 213
          /\ log[k - 2].rc = "zero"
          /\ log[k].rc # "zero" => RaisedAt(k)
    /\ \A k \in At(207) :
          \E j \in At(190) :
             /\ SameCall(j, k, FALSE)
             /\ OwnPid \in Range(log[j].words)
    /\ \A k \in Entries :
          log[k].ln \notin {207, 213, 214, 215} =>
             log[k].cmd \notin
                {"systemctl restart atd",
                 "at -f /delete-lock.sh now + 1 minutes",
                 "at -f /restart-wala.sh now + 2 minutes",
                 "pkill -f .*ForLinux.*handle.py.*daemon.*"}

\* both jobs are scheduled and pkill has been issued
C30_Reached == DoneAt(215) # {} /\ At(207) # {}

\* the second at command failed
C30_ReachedJobFailed == outcome = "raised" /\ error.ln = 214

-----------------------------------------------------------------------------
(* Properties of the legacy strategy's kernel parameter, under SpecPatcher *)

\* a run of the patcher for a state without root identifier
LegacyRun == Patching /\ env.root_partuuid = ""

\* C31: a run of the legacy strategy calls the kernel-option interface only
\* as its last step, directly behind a dracut (l.303) that exited zero, and
\* with the one parameter rd.debug; a run that returned has made exactly
\* this one call, has added nothing but rd.debug to the kernel command
\* line, and has registered no CryptItem.
C31_LegacyDebugOnlyAfterDracut ==
    LegacyRun =>
        /\ \A k \in CallsOf("_add_kernelopts") :
              /\ log[k].ln = 304
              /\ log[k].words = <<"rd.debug">>
              /\ k = Len(log)
              /\ k > 1
              /\ log[k - 1].ln = 303
              /\ log[k - 1].rc = "zero"
        /\ CallsOf("add_crypt_item") = {}
        /\ sys.cryptItems = op.before.cryptItems
        /\ Range(sys.kernelOpts) \ Range(op.before.kernelOpts)
              \subseteq {"rd.debug"}
        /\ outcome = "returned" =>
              /\ Cardinality(CallsOf("_add_kernelopts")) = 1
              /\ "rd.debug" \in Range(sys.kernelOpts)
              /\ sys.initramfs # <<>>

\* the first run of the legacy strategy has returned
C31_Reached ==
    /\ LegacyRun
    /\ outcome = "returned"
    /\ "rd.debug" \notin Range(op.before.kernelOpts)
    /\ "rd.debug" \in Range(sys.kernelOpts)

-----------------------------------------------------------------------------
(* Properties of the rollback: what it leaves in place, under Spec *)

\* in this run of enter() the UUID-based strategy failed at its dracut
DracutFailed ==
    /\ op.name = "enter"
    /\ exc.type = "CommandFailed"
    /\ exc.ln = 276

\* C32: once the UUID-based strategy has failed at the initramfs rebuild
\* (l.276), and through the rollback until enter() has raised, the three
\* directives the run appended to /etc/dracut.conf.d/ade.conf, the three
\* kernel parameters it added and the CryptItem it registered are in place,
\* /etc/dracut.conf and the initramfs are as the run found them, and all
\* that is done behind the failure is the four commands of the way back,
\* handed to the executor: no file is written, no collaborator called.
C32_RollbackKeepsConfiguration ==
    DracutFailed =>
        /\ sys.adeConf = op.before.adeConf
              \o << "\nadd_drivers+=\" dm_crypt \"\n",
                    "\nadd_fstab+=\" /lib/dracut/modules.d/91adeOnline/ade_fstab_line \"\n",
                    "\nadd_dracutmodules+=\" crypt lvm\"\n" >>
        /\ \A q \in Range(op.before.kernelOpts)
                 \cup { "rd.luks.ade.partuuid=" \o env.root_partuuid,
                        "rd.luks.ade.bootuuid=" \o env.boot_uuid,
                        "rd.debug" } :
              Occurrences(sys.kernelOpts, q) = 1
        /\ sys.cryptItems =
              Append(op.before.cryptItems,
                     [dev_path |-> "/dev/disk/by-partuuid/" \o env.root_partuuid,
                      mapper_name |-> "osencrypt",
                      luks_header_path |-> "/boot/luks/osluksheader"])
        /\ sys.dracutConf = op.before.dracutConf
        /\ sys.initramfs = op.before.initramfs
        /\ \A k \in (exc.after + 1)..Len(log) :
              /\ log[k].via = "executor"
              /\ log[k].cmd \in Range(RollbackSequence)

\* enter() has raised behind the whole rollback, back on the original root
C32_Reached ==
    /\ DracutFailed
    /\ outcome = "raised"
    /\ sys.root = "memroot"
    /\ Len(log) = exc.after + Len(RollbackSequence)
    /\ Len(sys.cryptItems) = 1

-----------------------------------------------------------------------------
(* Properties of unmount(): a fuser that fails, under SpecReclaim *)

\* in this call of unmount(m) the fuser of m has failed
FuserFailed ==
    /\ op.name = "unmount"
    /\ \E k \in At(190) :
          log[k].cmd = "fuser -vm " \o op.arg /\ log[k].rc = "nonzero"

\* C33, as stated: when the fuser of m fails in unmount(m), the call has
\* issued no kill, no 'telinit u' and no 'umount m', has raised the failure,
\* and m is mounted.
C33_NoKillNoTelinitNoUmount ==
    FuserFailed =>
        /\ At(221) = {}
        /\ At(223) = {}
        /\ \A k \in Entries : log[k].cmd # "umount " \o op.arg
        /\ outcome = "raised"
        /\ Canon(op.arg, sys) \in sys.mounted

\* C33, amended: when the fuser of m fails in unmount(m), behind a probe
\* that found m mounted, the call ends there: the fuser is its last command,
\* the call has raised the failure of the fuser, nothing was issued for m (no
\* 'umount m', and no kill or telinit behind the probe of m), and m is
\* still mounted.  For m other than /var the reclaim of /var has run first
\* (l.183): every kill, telinit and umount of the call belongs to it, comes
\* before the probe of m and behind a fuser of /var that succeeded; for
\* m = /var the call has issued none.
C33_FailedFuserEndsCall ==
    FuserFailed =>
        /\ log[Len(log)].ln = 190
        /\ log[Len(log)].cmd = "fuser -vm " \o op.arg
        /\ log[Len(log)].rc = "nonzero"
        /\ log[Len(log) - 1].ln = 185
        /\ log[Len(log) - 1].cmd = "mountpoint " \o op.arg
        /\ log[Len(log) - 1].rc = "zero"
        /\ outcome = "raised"
        /\ error.type = "CommandFailed"
        /\ error.ln = 190
        /\ error.cmd = "fuser -vm " \o op.arg
        /\ Canon(op.arg, sys) \in sys.mounted
        /\ \A k \in Entries : log[k].cmd # "umount " \o op.arg
        /\ \A k \in At(221) \cup At(223) \cup At(227) :
              /\ op.arg # "/var"
              /\ k < Len(log) - 1
              /\ log[k].ln = 227 => log[k].cmd = "umount /var"
              /\ \E j \in 1..(k - 1) :
                    /\ log[j].cmd = "fuser -vm /var"
                    /\ log[j].rc = "zero"
                    /\ \A i \in (j + 1)..k : log[i].ln # 190

\* the fuser of /opt failed after the reclaim of /var had killed a process
\* and unmounted /var
C33_Reached ==
    /\ FuserFailed
    /\ op.arg = "/opt"
    /\ At(221) # {}
    /\ \E k \in At(227) : log[k].rc = "zero"

\* the fuser of /var failed in unmount('/var')
C33_ReachedVar == FuserFailed /\ op.arg = "/var"

=============================================================================
